---- MODULE Spec2Model ----
(***************************************************************************)
(* Model of the per-call conversation / quote state machine of VoiceRAG's  *)
(* ACS call handler (src/app/backend/acs_call_handler.py) together with    *)
(* the two pure helpers it imports from src/app/backend/quote_tools.py     *)
(* (normalize_email, _find_best_product_match).                            *)
(*                                                                         *)
(* Text is modelled as a sequence of one-character strings, so that the    *)
(* normalisations of the code (lower-casing, regex substitutions, fuzzy    *)
(* matching) are computed character by character as the code does.         *)
(*                                                                         *)
(* acs_call_handler.py carries unresolved merge markers in                 *)
(* generate_answer_text_with_gpt (lines 676-704 and 729-733).  The model   *)
(* reads the function with the markers removed and both sides kept, in the *)
(* order of the file: that text is a well-formed function (the second      *)
(* `quote_updated = False` is a harmless re-assignment).                   *)
(*                                                                         *)
(* The handlers are coroutines of one event loop; the model takes the      *)
(* handling of one event as one step.  The store holds one call id.  Keys  *)
(* of a call record that the handlers write and never read (last_answer,   *)
(* welcome_text, started_at, caller_info) are left out.                    *)
(*                                                                         *)
(* Two specifications share the variables and the actions:                 *)
(*   Spec          the call lifecycle: every event of the webhook, with a  *)
(*                 small set of dialogue inputs;                           *)
(*   DialogueSpec  the dialogue of one connected call: its transcripts,    *)
(*                 with every extractor environment;                       *)
(*   HistorySpec   a long dialogue of one connected call, in which the     *)
(*                 extractor finds nothing or fails: the history fills up. *)
(***************************************************************************)
EXTENDS Integers, Sequences, FiniteSets, TLC

\* ------------------------------------------------------------------------
\* Bounds of the model
\* ------------------------------------------------------------------------
\* the dialogue turns of a behaviour of DialogueSpec
MaxTurns == 2

\* the dialogue turns of a behaviour of Spec
MaxCallTurns == 1

\* the dialogue turns of a behaviour of HistorySpec: one more than the
\* history holds
MaxHistoryTurns == 11

\* the transcripts of a call whose turns overlap, the one that completed
\* the quote included
MaxConcurrentTurns == 3

\* ------------------------------------------------------------------------
\* Characters and strings
\* ------------------------------------------------------------------------
UpperChars ==
  <<"A","B","C","D","E","F","G","H","I","J","K","L","M",
    "N","O","P","Q","R","S","T","U","V","W","X","Y","Z">>

LowerChars ==
  <<"a","b","c","d","e","f","g","h","i","j","k","l","m",
    "n","o","p","q","r","s","t","u","v","w","x","y","z">>

DigitChars == {"0","1","2","3","4","5","6","7","8","9"}

Range(f) == {f[i] : i \in DOMAIN f}

IsLower(ch) == ch \in Range(LowerChars)

\* [a-z0-9]
IsAlnum(ch) == IsLower(ch) \/ ch \in DigitChars

\* \w
IsWordChar(ch) == IsAlnum(ch) \/ ch \in Range(UpperChars) \/ ch = "_"

\* \s (the blank is the only white space of the model's alphabet)
IsSpace(ch) == ch = " "

LowerChar(ch) ==
  IF ch \in Range(UpperChars) THEN LowerChars[CHOOSE i \in 1..26 : UpperChars[i] = ch] ELSE ch

\* str.lower()
Lower(s) == [i \in 1..Len(s) |-> LowerChar(s[i])]

RECURSIVE LStrip(_)
LStrip(s) == IF s # <<>> /\ IsSpace(Head(s)) THEN LStrip(Tail(s)) ELSE s

RECURSIVE RStrip(_)
RStrip(s) ==
  IF s # <<>> /\ IsSpace(s[Len(s)]) THEN RStrip(SubSeq(s, 1, Len(s) - 1)) ELSE s

\* str.strip()
Strip(s) == RStrip(LStrip(s))

\* s without the characters of drop: re.sub(r"[...]", "", s)
RECURSIVE DropChars(_, _)
DropChars(s, drop) ==
  IF s = <<>> THEN <<>>
  ELSE (IF Head(s) \in drop THEN <<>> ELSE <<Head(s)>>) \o DropChars(Tail(s), drop)

\* re.sub(r"\s+", " ", s)
RECURSIVE CollapseSpaces(_)
CollapseSpaces(s) ==
  IF s = <<>> THEN <<>>
  ELSE IF IsSpace(Head(s))
       THEN <<" ">> \o CollapseSpaces(LStrip(s))
       ELSE <<Head(s)>> \o CollapseSpaces(Tail(s))

\* re.sub(r"\.{2,}", ".", s)
RECURSIVE CollapseDots(_)
CollapseDots(s) ==
  IF s = <<>> THEN <<>>
  ELSE IF Head(s) = "." /\ Len(s) > 1 /\ s[2] = "."
       THEN CollapseDots(Tail(s))
       ELSE <<Head(s)>> \o CollapseDots(Tail(s))

\* needle in haystack (substring test)
Contains(haystack, needle) ==
  \E i \in 1..(Len(haystack) - Len(needle) + 1) :
     SubSeq(haystack, i, i + Len(needle) - 1) = needle

\* index of the first ch in s, 0 when there is none
FirstIndex(s, ch) ==
  IF \E i \in 1..Len(s) : s[i] = ch
  THEN CHOOSE i \in 1..Len(s) : s[i] = ch /\ \A j \in 1..(i - 1) : s[j] # ch
  ELSE 0

\* ------------------------------------------------------------------------
\* quote_tools.py: e-mail normalisation
\* ------------------------------------------------------------------------
\* An element of a word pattern that stands for \s*
WsStar == "\\s*"

\* _WORD_MAP: the alternations, in the order of the source, with their
\* replacement.  The alternatives written in Chinese characters are left
\* out: no text of the model contains them.
WORD_MAP ==
  << [alts |-> << <<"a","t">>, <<"@">>, <<"a","t","-","s","i","g","n">>,
                  <<"a","t","s","i","g","n">> >>,
      repl |-> <<"@">>],
     [alts |-> << <<"d","o","t">>, <<"p","o","i","n","t">>,
                  <<"p","e","r","i","o","d">> >>,
      repl |-> <<".">>],
     [alts |-> << <<"u","n","d","e","r","s","c","o","r","e">>,
                  <<"u","n","d","e","r",WsStar,"s","c","o","r","e">> >>,
      repl |-> <<"_">>],
     [alts |-> << <<"d","a","s","h">>, <<"h","y","p","h","e","n">>,
                  <<"m","i","n","u","s">> >>,
      repl |-> <<"-">>],
     [alts |-> << <<"p","l","u","s">> >>,
      repl |-> <<"+">>] >>

\* _DOMAIN_FIX
DOMAIN_FIX ==
  << [from |-> <<"g","a","m","i","l",".","c","o","m">>,
      to   |-> <<"g","m","a","i","l",".","c","o","m">>],
     [from |-> <<"g","m","i","a","l",".","c","o","m">>,
      to   |-> <<"g","m","a","i","l",".","c","o","m">>],
     [from |-> <<"g","m","a","i","l",".","c","o","n">>,
      to   |-> <<"g","m","a","i","l",".","c","o","m">>],
     [from |-> <<"h","o","t","m","i","a","l",".","c","o","m">>,
      to   |-> <<"h","o","t","m","a","i","l",".","c","o","m">>],
     [from |-> <<"o","u","t","l","l","o","k",".","c","o","m">>,
      to   |-> <<"o","u","t","l","o","o","k",".","c","o","m">>] >>

\* \b before position i of s
WordBoundary(s, i) ==
  LET l == i > 1 /\ IsWordChar(s[i - 1])
      r == i <= Len(s) /\ IsWordChar(s[i])
  IN  l # r

\* Match the alternative alt (from its element k) at position i of s,
\* ignoring case: the position after the match, 0 when it fails.
RECURSIVE MatchAlt(_, _, _, _)
MatchAlt(s, i, alt, k) ==
  IF k > Len(alt) THEN i
  ELSE IF alt[k] = WsStar
       THEN IF i <= Len(s) /\ IsSpace(s[i])
            THEN MatchAlt(s, i + 1, alt, k)
            ELSE MatchAlt(s, i, alt, k + 1)
       ELSE IF i <= Len(s) /\ LowerChar(s[i]) = alt[k]
            THEN MatchAlt(s, i + 1, alt, k + 1)
            ELSE 0

\* \b(alt1|alt2|...)\b at position i: the first alternative that matches
\* and ends on a word boundary decides; 0 when none does.
RECURSIVE MatchWord(_, _, _, _)
MatchWord(s, i, alts, a) ==
  IF a > Len(alts) \/ ~WordBoundary(s, i) THEN 0
  ELSE LET n == MatchAlt(s, i, alts[a], 1)
       IN  IF n # 0 /\ WordBoundary(s, n) THEN n
           ELSE MatchWord(s, i, alts, a + 1)

\* re.sub(pattern, repl, s, flags=re.I) for one entry of _WORD_MAP
RECURSIVE SubWords(_, _, _)
SubWords(s, i, entry) ==
  IF i > Len(s) THEN <<>>
  ELSE LET n == MatchWord(s, i, entry.alts, 1)
       IN  IF n # 0
           THEN entry.repl \o SubWords(s, n, entry)
           ELSE <<s[i]>> \o SubWords(s, i + 1, entry)

RECURSIVE ApplyEntries(_, _)
ApplyEntries(s, k) ==
  IF k > Len(WORD_MAP) THEN s
  ELSE ApplyEntries(SubWords(s, 1, WORD_MAP[k]), k + 1)

apply_word_map(s) == ApplyEntries(s, 1)

\* _strip_trailing_punct, with the ASCII characters of _TRAILING_PUNCT
RECURSIVE strip_trailing_punct(_)
strip_trailing_punct(s) ==
  IF s # <<>> /\ s[Len(s)] \in {".", ",", ";", ":", "!", "?", ")", "]", "}", "'", "\""}
  THEN strip_trailing_punct(SubSeq(s, 1, Len(s) - 1))
  ELSE s

\* the character classes [a-z0-9._%+\-] and [a-z0-9.\-] of _EMAIL_REGEX;
\* _EMAIL_FIND_REGEX adds \s to both.  The patterns are compiled with re.I.
LocalClass == Range(LowerChars) \cup DigitChars \cup {".", "_", "%", "+", "-"}

DomainClass == Range(LowerChars) \cup DigitChars \cup {".", "-"}

\* first position >= i whose character is not in the class (ignoring
\* case), Len(s)+1 if none
RECURSIVE SkipWhile(_, _, _)
SkipWhile(s, i, class) ==
  IF i <= Len(s) /\ LowerChar(s[i]) \in class THEN SkipWhile(s, i + 1, class) ELSE i

\* _EMAIL_FIND_REGEX matched at position i: the position after the match,
\* 0 when the pattern does not match there.  The greedy local part must run
\* up to an "@"; the greedy domain part is given back up to its last "."
\* that is followed by optional blanks and at least two letters.
FindEmailAt(s, i) ==
  IF ~(i <= Len(s) /\ IsAlnum(LowerChar(s[i]))) THEN 0
  ELSE LET at == SkipWhile(s, i + 1, LocalClass \cup {" "})
       IN  IF ~(at <= Len(s) /\ s[at] = "@") THEN 0
           ELSE LET e == SkipWhile(s, at + 1, DomainClass \cup {" "})
                    okDots == { q \in (at + 2)..(e - 1) :
                                  /\ s[q] = "."
                                  /\ \E m \in (at + 1)..(q - 1) :
                                        \A x \in (m + 1)..(q - 1) : IsSpace(s[x])
                                  /\ LET r == SkipWhile(s, q + 1, {" "})
                                     IN  SkipWhile(s, r, Range(LowerChars)) - r >= 2 }
                IN  IF okDots = {} THEN 0
                    ELSE LET q == CHOOSE x \in okDots : \A y \in okDots : y <= x
                             r == SkipWhile(s, q + 1, {" "})
                         IN  SkipWhile(s, r, Range(LowerChars))

\* [m.group(1) for m in _EMAIL_FIND_REGEX.finditer(text)]
RECURSIVE FindCandidates(_, _)
FindCandidates(s, i) ==
  IF i > Len(s) THEN <<>>
  ELSE LET t == FindEmailAt(s, i)
       IN  IF t # 0
           THEN <<SubSeq(s, i, t - 1)>> \o FindCandidates(s, t)
           ELSE FindCandidates(s, i + 1)

\* re.fullmatch(r"[a-z0-9](?:[-_.][a-z0-9]){3,}", local)
IsSpelledOut(local) ==
  /\ Len(local) >= 7
  /\ Len(local) % 2 = 1
  /\ \A i \in 1..Len(local) :
        IF i % 2 = 1 THEN IsAlnum(local[i]) ELSE local[i] \in {"-", "_", "."}

\* re.search(r"(?:^|[^a-z0-9])[a-z0-9](?:-[a-z0-9]){2,}", local)
HasHyphenRun(local) ==
  \E i \in 1..(Len(local) - 4) :
     /\ i = 1 \/ ~IsAlnum(local[i - 1])
     /\ IsAlnum(local[i]) /\ local[i + 1] = "-" /\ IsAlnum(local[i + 2])
     /\ local[i + 3] = "-" /\ IsAlnum(local[i + 4])

\* s.strip(".")
RECURSIVE StripDots(_)
StripDots(s) ==
  IF s # <<>> /\ Head(s) = "." THEN StripDots(Tail(s))
  ELSE IF s # <<>> /\ s[Len(s)] = "." THEN StripDots(SubSeq(s, 1, Len(s) - 1))
  ELSE s

\* re.sub(r"([a-z0-9])tld$", r"\1.tld", domain)
FixTld(domain, tld) ==
  IF /\ Len(domain) > Len(tld)
     /\ SubSeq(domain, Len(domain) - Len(tld) + 1, Len(domain)) = tld
     /\ IsAlnum(domain[Len(domain) - Len(tld)])
  THEN SubSeq(domain, 1, Len(domain) - Len(tld)) \o <<".">> \o tld
  ELSE domain

\* _DOMAIN_FIX.get(domain, domain)
DomainFix(domain) ==
  IF \E k \in 1..Len(DOMAIN_FIX) : DOMAIN_FIX[k].from = domain
  THEN DOMAIN_FIX[CHOOSE k \in 1..Len(DOMAIN_FIX) : DOMAIN_FIX[k].from = domain].to
  ELSE domain

\* lines 92-93: a local part spelled out character by character is joined
JoinSpelledOut(local) ==
  IF IsSpelledOut(local) THEN DropChars(local, {"-", "_", "."})
  ELSE local

\* lines 97-98
DropHyphenRuns(local) ==
  IF HasHyphenRun(local) THEN DropChars(local, {"-"}) ELSE local

\* lines 101-109
CleanDomain(domain) ==
  DomainFix(FixTld(FixTld(FixTld(StripDots(CollapseDots(domain)), <<"c","o","m">>),
                          <<"n","e","t">>), <<"o","r","g">>))

\* lines 85-111: s is the candidate after lines 79-83
CleanAddress(s) ==
  IF FirstIndex(s, "@") = 0 THEN s
  ELSE DropHyphenRuns(JoinSpelledOut(SubSeq(s, 1, FirstIndex(s, "@") - 1)))
       \o <<"@">> \o CleanDomain(SubSeq(s, FirstIndex(s, "@") + 1, Len(s)))

normalize_one(candidate) ==
  CleanAddress(strip_trailing_punct(DropChars(
                 apply_word_map(strip_trailing_punct(Lower(Strip(candidate)))), {" "})))

\* _EMAIL_REGEX.match(norm)
MatchesEmailRegex(norm) ==
  LET at == FirstIndex(norm, "@")
      dom == SubSeq(norm, at + 1, Len(norm))
      dots == { p \in 1..Len(dom) : dom[p] = "." }
  IN  /\ at >= 2
      /\ IsAlnum(LowerChar(norm[1]))
      /\ \A i \in 2..(at - 1) : LowerChar(norm[i]) \in LocalClass
      /\ \A i \in 1..Len(dom) : LowerChar(dom[i]) \in DomainClass
      /\ dots # {}
      /\ LET p == CHOOSE x \in dots : \A y \in dots : y <= x
         IN  /\ p >= 2
             /\ Len(dom) - p >= 2
             /\ \A i \in (p + 1)..Len(dom) : IsLower(LowerChar(dom[i]))

\* the absent result (None) of normalize_email; a normalised address is
\* never empty
NoEmail == <<>>

\* lines 138-140, for every candidate
NormalizedCandidates(candidates) ==
  [k \in 1..Len(candidates) |->
     strip_trailing_punct(CollapseDots(normalize_one(candidates[k])))]

\* lines 137-145: the first normalised candidate that is a valid address
RECURSIVE FirstValid(_, _)
FirstValid(norms, k) ==
  IF k > Len(norms) THEN NoEmail
  ELSE IF MatchesEmailRegex(norms[k]) THEN norms[k]
  ELSE FirstValid(norms, k + 1)

\* lines 132-145: text is the raw text after lines 127-129; the candidates
\* are those found in text, or text itself (lines 132-134)
FirstEmailIn(text) ==
  FirstValid(NormalizedCandidates(IF FindCandidates(text, 1) = <<>> THEN <<text>>
                                  ELSE FindCandidates(text, 1)), 1)

normalize_email(raw) ==
  IF Strip(raw) = <<>> THEN NoEmail
  ELSE FirstEmailIn(strip_trailing_punct(apply_word_map(Lower(Strip(raw)))))

\* ------------------------------------------------------------------------
\* quote_tools.py: fuzzy product matching
\* ------------------------------------------------------------------------
\* Scores are fractions num/den with den > 0 (the code uses floats).
ScoreGT(x, y) == x.num * y.den > y.num * x.den

\* threshold = 0.6 and the substring boost 0.75 of _find_best_product_match
MatchThreshold == [num |-> 3, den |-> 5]

SubstringBoost == [num |-> 3, den |-> 4]

\* length of the longest common prefix of a[i..ahi] and b[j..bhi]
RECURSIVE CommonLen(_, _, _, _, _, _)
CommonLen(a, i, ahi, b, j, bhi) ==
  IF i <= ahi /\ j <= bhi /\ a[i] = b[j]
  THEN 1 + CommonLen(a, i + 1, ahi, b, j + 1, bhi)
  ELSE 0

\* difflib.SequenceMatcher.find_longest_match without junk: the longest
\* common block of a[alo..ahi] and b[blo..bhi], the earliest in a and then
\* the earliest in b among the longest
LongestMatch(a, alo, ahi, b, blo, bhi) ==
  LET pairs == (alo..ahi) \X (blo..bhi)
      len(p) == CommonLen(a, p[1], ahi, b, p[2], bhi)
      best == CHOOSE p \in pairs :
                \A q \in pairs :
                   \/ len(p) > len(q)
                   \/ len(p) = len(q) /\ p[1] < q[1]
                   \/ len(p) = len(q) /\ p[1] = q[1] /\ p[2] <= q[2]
  IN  [i |-> best[1], j |-> best[2], k |-> len(best)]

\* sum of the sizes of SequenceMatcher.get_matching_blocks(): the longest
\* block m, and the blocks to its left and to its right
RECURSIVE MatchCount(_, _, _, _, _, _)
RECURSIVE BlocksAround(_, _, _, _, _, _, _)
BlocksAround(m, a, alo, ahi, b, blo, bhi) ==
  IF m.k = 0 THEN 0
  ELSE m.k + MatchCount(a, alo, m.i - 1, b, blo, m.j - 1)
           + MatchCount(a, m.i + m.k, ahi, b, m.j + m.k, bhi)

MatchCount(a, alo, ahi, b, blo, bhi) ==
  IF alo > ahi \/ blo > bhi THEN 0
  ELSE BlocksAround(LongestMatch(a, alo, ahi, b, blo, bhi), a, alo, ahi, b, blo, bhi)

\* _similarity: SequenceMatcher(None, a.lower(), b.lower()).ratio()
similarity(a, b) ==
  LET la == Lower(a)
      lb == Lower(b)
  IN  IF Len(la) + Len(lb) = 0 THEN [num |-> 1, den |-> 1]
      ELSE [num |-> 2 * MatchCount(la, 1, Len(la), lb, 1, Len(lb)),
            den |-> Len(la) + Len(lb)]

\* the absent result (None) of _find_best_product_match
NoMatch == <<>>

\* lines 190-192: max(score, 0.75) when one name contains the other
Boosted(score, user_lower, product_lower) ==
  IF /\ Len(user_lower) >= 3 /\ Len(product_lower) >= 3
     /\ \/ Contains(product_lower, user_lower)
        \/ Contains(user_lower, product_lower)
     /\ ScoreGT(SubstringBoost, score)
  THEN SubstringBoost ELSE score

\* lines 186-192
ScoreOf(user_lower, product_lower) ==
  Boosted(similarity(user_lower, product_lower), user_lower, product_lower)

\* the loop of _find_best_product_match over products[k..]
RECURSIVE BestMatchFrom(_, _, _, _, _)
RECURSIVE BestMatchWith(_, _, _, _, _, _)
\* lines 194-196, with the score of products[k]
BestMatchWith(score, user_lower, products, k, best_match, best_score) ==
  IF ScoreGT(score, best_score)
  THEN BestMatchFrom(user_lower, products, k + 1, products[k], score)
  ELSE BestMatchFrom(user_lower, products, k + 1, best_match, best_score)

BestMatchFrom(user_lower, products, k, best_match, best_score) ==
  IF k > Len(products)
  THEN IF ~ScoreGT(MatchThreshold, best_score) THEN best_match ELSE NoMatch
  ELSE IF products[k] = <<>>
  THEN BestMatchFrom(user_lower, products, k + 1, best_match, best_score)
  ELSE IF user_lower = Lower(products[k]) THEN products[k]
  ELSE BestMatchWith(ScoreOf(user_lower, Lower(products[k])),
                     user_lower, products, k, best_match, best_score)

\* products is the list of the catalog's names
find_best_product_match(user_input, products) ==
  IF products = <<>> \/ user_input = <<>> THEN NoMatch
  ELSE BestMatchFrom(Lower(Strip(user_input)), products, 1, NoMatch,
                     [num |-> 0, den |-> 1])

\* ------------------------------------------------------------------------
\* Values: JSON values of the Language Model's output and of the call store
\* ------------------------------------------------------------------------
\* null, or a key that is absent from a dict (dict.get returns None)
JNull == [t |-> "null"]

JStr(s) == [t |-> "str", s |-> s]

JNum(n) == [t |-> "num", n |-> n]

\* Python truthiness: `if value:`
Truthy(v) ==
  CASE v.t = "null" -> FALSE
    [] v.t = "str"  -> v.s # <<>>
    [] v.t = "num"  -> v.n # 0

\* a quote item is a dict {"product_package": ..., "quantity": ...}; an
\* element of the list that is no dict is modelled by JNull
IsDict(item) == "product_package" \in DOMAIN item

Item(name, quantity) == [product_package |-> name, quantity |-> quantity]

\* the key "quote_items" of an extracted dict: a list, or absent
\* ([t |-> "absent"])
ItemsOf(l) == [t |-> "list", l |-> l]

\* extracted.get("quote_items", [])
GetItems(extracted) ==
  IF extracted.quote_items.t = "list" THEN extracted.quote_items.l ELSE <<>>

ScalarFields == <<"customer_name", "contact_info", "expected_start_date", "notes">>

RequiredFields == <<"customer_name", "contact_info", "quote_items">>

\* the empty dict {}
EmptyExtracted ==
  [customer_name |-> JNull, contact_info |-> JNull,
   expected_start_date |-> JNull, notes |-> JNull, quote_items |-> [t |-> "absent"]]

\* call_info.get("quote_state", {}) of a call without quote_state
NoQuoteState == [t |-> "none"]

QuoteState(extracted, missing_fields, products_available, is_complete) ==
  [t |-> "qs", extracted |-> extracted, missing_fields |-> missing_fields,
   products_available |-> products_available, is_complete |-> is_complete]

\* bool(quote_state)
HasQuoteState(qs) == qs.t = "qs"

\* quote_state.get("is_complete")
IsComplete(qs) == qs.t = "qs" /\ qs.is_complete

\* current_state.get("extracted", {})
CurrentExtracted(current_state) ==
  IF current_state.t = "qs" THEN current_state.extracted ELSE EmptyExtracted

\* ------------------------------------------------------------------------
\* The texts of a behaviour: the product catalog and the JSON objects the
\* Language Model returns to the extraction call
\* ------------------------------------------------------------------------
\* the names of the active products of the CRM
Catalog == << <<"P","r","o">>, <<"L","i","t","e">> >>

Pro == JStr(<<"P","r","o">>)

Lite == JStr(<<"L","i","t","e">>)

\* a JSON object of the extraction call
Out(customer_name, contact_info, expected_start_date, notes, quote_items) ==
  [customer_name |-> customer_name, contact_info |-> contact_info,
   expected_start_date |-> expected_start_date, notes |-> notes,
   quote_items |-> quote_items]

\* the JSON objects the Language Model returns to the extraction call
Outputs ==
  [NothingFound |-> Out(JStr(<<>>), JNull, JNull, JNull, <<>>),
   CallerDetails |->
     Out(JStr(<<"B","o">>), JStr(<<"5","5","5">>), JStr(<<"M","a","y">>), JNull, <<>>),
   WholeQuote |->
     Out(JStr(<<"A","l">>), JStr(<<"b","@","x",".","d","o","t","c","o","m">>), JNull,
         JStr(<<"n">>), <<Item(Pro, JNum(2))>>),
   TwoItems |->
     Out(JNull, JNull, JNull, JNull, <<Item(Pro, JNum(5)), Item(Lite, JNum(1))>>),
   SpokenName |->
     Out(JNull, JNull, JNull, JNull, <<Item(JStr(<<"p","r","o">>), JNum(5))>>),
   ZeroQuantity |-> Out(JNull, JNull, JNull, JNull, <<Item(Pro, JNum(0))>>),
   TextQuantity |-> Out(JNull, JNull, JNull, JNull, <<Item(Pro, JStr(<<"2">>))>>),
   BrokenItems |->
     Out(JNull, JNull, JNull, JNull, <<JNull, Item(JNull, JNum(1)), Item(Lite, JNull)>>)]

ExtractorOutputs == Range(Outputs)

\* The conversions of the texts above, computed once: a text outside the
\* tables is converted on the spot.
RECURSIVE EmailClosure(_, _)
EmailClosure(texts, k) ==
  IF k = 0 THEN texts
  ELSE EmailClosure(texts \cup ({ normalize_email(t) : t \in texts } \ {NoEmail}), k - 1)

EmailTable ==
  LET texts == EmailClosure({ o.contact_info.s :
                                o \in { x \in ExtractorOutputs : Truthy(x.contact_info) } }, 2)
  IN  [t \in texts |-> normalize_email(t)]

NormalizeEmail(text) ==
  IF text \in DOMAIN EmailTable THEN EmailTable[text] ELSE normalize_email(text)

\* the product names of a list of items
ItemNames(items) ==
  { items[i].product_package.s :
      i \in { j \in 1..Len(items) : IsDict(items[j]) /\ Truthy(items[j].product_package) } }

ProductTable ==
  LET names == { Catalog[i] : i \in 1..Len(Catalog) }
               \cup UNION { ItemNames(o.quote_items) : o \in ExtractorOutputs }
  IN  [n \in names |-> find_best_product_match(n, Catalog)]

FindBestProductMatch(user_input, products) ==
  IF products = Catalog /\ user_input \in DOMAIN ProductTable
  THEN ProductTable[user_input]
  ELSE find_best_product_match(user_input, products)

\* ------------------------------------------------------------------------
\* acs_call_handler.py: the Quote Extractor (_extract_quote_info_phone)
\* ------------------------------------------------------------------------
\* lines 1340-1346: a new truthy value replaces the old one
MergeScalar(old_value, new_value) ==
  IF Truthy(new_value) THEN new_value ELSE old_value

\* index of the first existing dict whose product_package equals name, 0 if none
FindItem(existing_items, name) ==
  LET hits == { i \in 1..Len(existing_items) :
                  IsDict(existing_items[i])
                  /\ existing_items[i].product_package = name }
  IN  IF hits = {} THEN 0 ELSE CHOOSE i \in hits : \A j \in hits : i <= j

\* lines 1354-1372, one iteration of the loop over new_items
MergeItem(existing_items, new_item) ==
  IF ~IsDict(new_item) \/ ~Truthy(new_item.product_package) THEN existing_items
  ELSE LET i == FindItem(existing_items, new_item.product_package)
       IN  IF i # 0
           THEN [existing_items EXCEPT ![i].quantity = new_item.quantity]
           ELSE Append(existing_items, new_item)

\* lines 1354-1372, the loop over new_items[k..]
RECURSIVE MergeItems(_, _, _)
MergeItems(existing_items, new_items, k) ==
  IF k > Len(new_items) THEN existing_items
  ELSE MergeItems(MergeItem(existing_items, new_items[k]), new_items, k + 1)

\* `quantity or 1`
QuantityOr1(quantity) == IF Truthy(quantity) THEN quantity ELSE JNum(1)

\* lines 1388-1400: the item under the matched name, or under its own name
MatchedItem(item, matched_product) ==
  IF matched_product # NoMatch
  THEN Item(JStr(matched_product), QuantityOr1(item.quantity))
  ELSE Item(item.product_package, QuantityOr1(item.quantity))

\* lines 1381-1400, the loop over extracted_data["quote_items"][k..]
RECURSIVE MatchItems(_, _, _)
MatchItems(items, products, k) ==
  IF k > Len(items) THEN <<>>
  ELSE IF ~IsDict(items[k]) \/ ~Truthy(items[k].product_package)
  THEN MatchItems(items, products, k + 1)
  ELSE <<MatchedItem(items[k],
                     FindBestProductMatch(items[k].product_package.s, products))>>
       \o MatchItems(items, products, k + 1)

\* lines 1405-1414: a contact that normalises is replaced by its normal
\* form, any other contact is kept as it is
NormalizedOr(normalized_email, contact_info) ==
  IF normalized_email # NoEmail THEN JStr(normalized_email) ELSE contact_info

NormalizeContact(contact_info) ==
  IF ~Truthy(contact_info) THEN contact_info
  ELSE NormalizedOr(NormalizeEmail(contact_info.s), contact_info)

\* lines 1428-1434, the condition of the comprehension for one item
IsValidItem(item) ==
  /\ IsDict(item)
  /\ Truthy(item.product_package)
  /\ item.quantity.t = "num"
  /\ item.quantity.n > 0

\* lines 1432-1433: `quantity is not None and quantity > 0` raises a
\* TypeError for a quantity that is a string
ValidationRaises(items) ==
  \E i \in 1..Len(items) :
     /\ IsDict(items[i])
     /\ Truthy(items[i].product_package)
     /\ items[i].quantity.t = "str"

\* lines 1418-1437
MissingFieldsWithoutItems(extracted) ==
  (IF ~Truthy(extracted.customer_name) THEN <<"customer_name">> ELSE <<>>)
  \o (IF ~Truthy(extracted.contact_info) THEN <<"contact_info">> ELSE <<>>)

MissingFields(extracted) ==
  (IF ~Truthy(extracted.customer_name) THEN <<"customer_name">> ELSE <<>>)
  \o (IF ~Truthy(extracted.contact_info) THEN <<"contact_info">> ELSE <<>>)
  \o (IF \E i \in 1..Len(GetItems(extracted)) : IsValidItem(GetItems(extracted)[i])
      THEN <<>> ELSE <<"quote_items">>)

\* lines 1270-1274 and 1457-1461: the result of a failed run.  extracted is
\* the dict of the current state itself, not a copy.
FailureResult(extracted) ==
  QuoteState(extracted, RequiredFields, <<>>, FALSE)

\* lines 1349-1373: extracted_data["quote_items"] after the merge
MergedItems(old, new_items) ==
  IF new_items # <<>> THEN ItemsOf(MergeItems(GetItems(old), new_items, 1))
  ELSE old.quote_items

\* lines 1350-1372: the current state's own dict after the in-place merge
Aliased(old, new_items) ==
  IF new_items # <<>> /\ old.quote_items.t = "list"
  THEN [old EXCEPT !.quote_items = ItemsOf(MergeItems(GetItems(old), new_items, 1))]
  ELSE old

\* lines 1377-1402: the items under the names of the catalog
MatchedItems(items, products) ==
  IF items.t = "list" /\ items.l # <<>> /\ products # <<>>
  THEN ItemsOf(MatchItems(items.l, products, 1))
  ELSE items

\* lines 1340-1414: extracted_data after merge, matching and normalisation
MergeExtracted(old, new_extracted, products) ==
  [customer_name |-> MergeScalar(old.customer_name, new_extracted.customer_name),
   contact_info |->
     NormalizeContact(MergeScalar(old.contact_info, new_extracted.contact_info)),
   expected_start_date |->
     MergeScalar(old.expected_start_date, new_extracted.expected_start_date),
   notes |-> MergeScalar(old.notes, new_extracted.notes),
   quote_items |-> MatchedItems(MergedItems(old, new_extracted.quote_items), products)]

\* lines 1416-1461: validation of extracted_data; aliased is what the
\* except clause finds under current_state["extracted"]
Validated(extracted_data, aliased, products) ==
  IF ValidationRaises(GetItems(extracted_data)) THEN FailureResult(aliased)
  ELSE QuoteState(extracted_data, MissingFields(extracted_data), products,
                  MissingFields(extracted_data) = <<>>)

\* lines 1285-1461: a run whose Language Model call returned new_extracted
ExtractedFrom(old, new_extracted, products) ==
  Validated(MergeExtracted(old, new_extracted, products),
            Aliased(old, new_extracted.quote_items), products)

\* One run of the extractor.
\*   current_state  the call's quote_state, or NoQuoteState ({})
\*   env.sf         "up" or "down": whether the CRM answered the catalog query
\*   env.catalog    the names of the active products when env.sf = "up"
\*   env.llm        "ok", "unconfigured" (no endpoint, lines 1269-1274) or
\*                  "error" (the client, the call or json.loads raised)
\*   env.out        the JSON object the Language Model returned
\* The list under "quote_items" of the current state is merged IN PLACE
\* (line 1285 copies the dict only, line 1350 takes the list itself), so a
\* run that raises after the merge returns the current extracted dict with
\* its list already changed.
extract_quote_info_phone(current_state, env) ==
  IF env.llm # "ok" THEN FailureResult(CurrentExtracted(current_state))
  ELSE ExtractedFrom(CurrentExtracted(current_state), env.out,
                     IF env.sf = "up" THEN env.catalog ELSE <<>>)

\* ------------------------------------------------------------------------
\* acs_call_handler.py: responses
\* ------------------------------------------------------------------------
\* A spoken text is modelled by its parts:
\*   lead    what comes first: "none", "updated" ("Got it, I updated the
\*           quote details."), "recap" (a recap of `fields`) or
\*           "updated_recap" (both)
\*   fields  the fields the recap restates
\*   body    "ask" (the prompt for `field`), "confirm_prompt" ("Please say
\*           'confirm' or 'yes' ..."), "qa" (the Language Model's answer),
\*           "fallback", "created" (success, with `number`) or
\*           "create_failed" (the apology)
Resp(lead, fields, body, field, number) ==
  [lead |-> lead, fields |-> fields, body |-> body, field |-> field, number |-> number]

NoResponse == Resp("none", {}, "none", "none", "none")

\* fallback of generate_answer_text_with_gpt (line 600)
FallbackResponse == Resp("none", {}, "fallback", "none", "none")

\* the fields of _build_quote_confirmation_recap
AllRecapFields ==
  {"customer_name", "contact_info", "quote_items", "expected_start_date", "notes"}

\* _generate_quote_collection_response: the field the prompt asks for
AskForLastMissing(missing_fields) ==
  IF "quote_items" \in Range(missing_fields) THEN "quote_items"
  ELSE IF "contact_info" \in Range(missing_fields) THEN "contact_info"
  ELSE IF "customer_name" \in Range(missing_fields) THEN "customer_name"
  ELSE "more"

generate_quote_collection_response(missing_fields) ==
  IF "customer_name" \in Range(missing_fields) THEN "customer_name"
  ELSE IF "contact_info" \in Range(missing_fields) THEN "contact_info"
  ELSE IF "quote_items" \in Range(missing_fields) THEN "quote_items"
  ELSE "more"

\* _build_quote_targeted_recap: the fields the recap restates;
\* requested_fields is already filtered to the allowed names (line 1026)
build_quote_targeted_recap(requested_fields) ==
  IF requested_fields = {} THEN AllRecapFields ELSE requested_fields

\* ------------------------------------------------------------------------
\* acs_call_handler.py: confirmation check (_is_confirmation)
\* ------------------------------------------------------------------------
\* re.sub(r"[^a-z\s]", " ", s)
NonLettersToSpaces(s) ==
  [i \in 1..Len(s) |-> IF IsLower(s[i]) \/ IsSpace(s[i]) THEN s[i] ELSE " "]

\* lines 865-867
NormalizeUtterance(user_text) ==
  Strip(CollapseSpaces(NonLettersToSpaces(Strip(Lower(user_text)))))

\* line 869: normalized in {"yes", "confirm"}
IsFastPathConfirmation(user_text) ==
  NormalizeUtterance(user_text) \in { <<"y","e","s">>, <<"c","o","n","f","i","r","m">> }

\* llm is the outcome of the confirmation call of the Language Model:
\* "unconfigured" (no endpoint, line 880), "confirm", or "other" (any other
\* state, or a failure of the call).
\* Returns the verdict and the number of Language Model calls issued.
is_confirmation(user_text, llm) ==
  IF IsFastPathConfirmation(user_text) THEN [verdict |-> TRUE, llm_calls |-> 0]
  ELSE IF llm = "unconfigured" THEN [verdict |-> FALSE, llm_calls |-> 0]
  ELSE [verdict |-> llm = "confirm", llm_calls |-> 1]

\* ------------------------------------------------------------------------
\* acs_call_handler.py: the Quote Finalizer (create_quote_from_state)
\* ------------------------------------------------------------------------
\* the absent result (None)
NoQuote == [t |-> "null"]

\* create_quote_from_state with the e-mail sent outside a try block of its
\* own: what it raises reaches the handler of the whole body
FinalizerEmailUnguarded(quote_state, crm) ==
  LET extracted == CurrentExtracted(quote_state)
      none == [result |-> NoQuote, create_calls |-> 0, create_args |-> EmptyExtracted,
               email_calls |-> 0]
  IN  IF \/ ~Truthy(extracted.customer_name) \/ ~Truthy(extracted.contact_info)
         \/ GetItems(extracted) = <<>> \/ crm.sf # "up"
      THEN none
      ELSE IF crm.create # "ok"
           THEN [none EXCEPT !.create_calls = 1, !.create_args = extracted]
      ELSE IF "@" \in Range(extracted.contact_info.s) /\ crm.email = "raised"
           THEN [none EXCEPT !.create_calls = 1, !.create_args = extracted,
                             !.email_calls = 1]
      ELSE [result |-> [t |-> "quote", quote_number |-> crm.number],
            create_calls |-> 1, create_args |-> extracted,
            email_calls |-> IF "@" \in Range(extracted.contact_info.s) THEN 1 ELSE 0]

\* crm.sf       "up" or "down" (sf_service.is_available(), line 1521)
\* crm.account  "ok" or "fail" (create_or_get_account and
\*              create_or_get_contact return an id, or None, lines 1526-1538)
\* crm.create   "ok" or "fail" (create_quote returns a dict, or None,
\*              lines 1552-1563)
\* crm.number   the quote number of the created quote
\* crm.email    "sent", "failed" (send_quote_email returns False) or
\*              "raised" (lines 1574-1599)
\* The whole body runs in a try block whose handler returns None (lines
\* 1489, 1608-1612).  Returns the result, the number of CreateQuote calls
\* made, the arguments of that call and the number of e-mails attempted.
create_quote_from_state(quote_state, crm) ==
  LET extracted == CurrentExtracted(quote_state)
      customer_name == extracted.customer_name
      contact_info == extracted.contact_info
      quote_items == GetItems(extracted)
      none == [result |-> NoQuote, create_calls |-> 0, create_args |-> EmptyExtracted,
               email_calls |-> 0]
  IN  IF ~Truthy(customer_name) \/ ~Truthy(contact_info) \/ quote_items = <<>>
      THEN none
      ELSE IF crm.sf # "up" THEN none
      ELSE IF crm.create # "ok"
           THEN [none EXCEPT !.create_calls = 1, !.create_args = extracted]
      ELSE [result |-> [t |-> "quote", quote_number |-> crm.number],
            create_calls |-> 1, create_args |-> extracted,
            email_calls |-> IF "@" \in Range(contact_info.s) THEN 1 ELSE 0]

\* ------------------------------------------------------------------------
\* The call store (_active_acs_calls) and the observation of the last event
\* ------------------------------------------------------------------------
CallIds == {"c1"}

VARIABLES
  calls,    \* _active_acs_calls: call id -> call record, or NoCall
  last,     \* what the handling of the last event did (observation only)
  turns,    \* number of non-empty transcripts handled so far
  inflight  \* call id -> the turns suspended at `await send_quote_email`

vars == <<calls, last, turns, inflight>>

NoCall == [t |-> "nocall"]

InStore(store, c) == store[c].t = "call"

\* a call record; a key the code never set is JNull / <<>> / FALSE
CallRecord(status, caller_phone, caller_raw_id) ==
  [t |-> "call", status |-> status, caller_phone |-> caller_phone,
   caller_raw_id |-> caller_raw_id, welcome_playing |-> FALSE,
   welcome_played |-> FALSE, conversation_history |-> <<>>,
   quote_state |-> NoQuoteState]

\* call_info.get("quote_state", {}) / .get("conversation_history", [])
QuoteStateOf(store, c) == IF InStore(store, c) THEN store[c].quote_state ELSE NoQuoteState

HistoryOf(store, c) == IF InStore(store, c) THEN store[c].conversation_history ELSE <<>>

\* commands to the Telephony Gateway
Speak(c, tag) == [cmd |-> "Speak", call |-> c, tag |-> tag, target |-> <<>>]

Listen(c, target) == [cmd |-> "Listen", call |-> c, tag |-> "user-speech", target |-> target]

\* the observation of an event that is no dialogue turn; acs is the state
\* of the gateway client during the handler ("none": not consulted), and
\* cleared the quote_state the event removed from the store
Observation(ev, c, text, cmds, acs) ==
  [ev |-> ev, call |-> c, text |-> text, acs |-> acs, behavior |-> "none",
   classifier_calls |-> 0, confirm_calls |-> 0, extractor_runs |-> 0,
   is_confirmation |-> FALSE, history |-> "kept",
   finalizer_calls |-> 0, finalizer_arg |-> NoQuoteState,
   finalizer_result |-> NoQuote, create_calls |-> 0, cleared |-> NoQuoteState,
   response |-> NoResponse, cmds |-> cmds]

\* ------------------------------------------------------------------------
\* acs_call_handler.py: generate_answer_text_with_gpt
\* ------------------------------------------------------------------------
Behaviors == {"quote_request", "recall_quote_info", "modify_quote_info", "general_qa"}

\* the category the Language Model gave, taken as it is
ClassifierPassThrough(llm_out) == llm_out

\* lines 1147-1209: llm_out is the category the classification call returned,
\* "error" when the call failed or returned anything else; an unknown
\* category or a failed call gives general_qa.  The function reads its
\* arguments and assigns to nothing.
classify_user_behavior_with_llm(llm_out) ==
  IF llm_out \in Behaviors THEN llm_out ELSE "general_qa"

\* the size of the history window (lines 658-659)
HistoryCap == 10

\* lines 654-656: the user's message is appended unless the last entry
\* already has its content
AppendAlways(conversation_history, user_text) ==
  Append(conversation_history, [role |-> "user", content |-> user_text])

AppendIfNew(conversation_history, user_text) ==
  IF conversation_history = <<>>
     \/ conversation_history[Len(conversation_history)].content # user_text
  THEN Append(conversation_history, [role |-> "user", content |-> user_text])
  ELSE conversation_history

\* lines 658-660: conversation_history[-10:]
KeepWholeHistory(conversation_history) == conversation_history

TrimHistory(conversation_history) ==
  IF Len(conversation_history) > HistoryCap
  THEN SubSeq(conversation_history, Len(conversation_history) - HistoryCap + 1,
              Len(conversation_history))
  ELSE conversation_history

\* the branch generate_answer_text_with_gpt takes (lines 681, 708, 734, 781)
Branch(quote_state, behavior) ==
  IF HasQuoteState(quote_state) /\ behavior = "modify_quote_info" THEN "modify"
  ELSE IF HasQuoteState(quote_state) /\ behavior = "recall_quote_info" THEN "recall"
  ELSE IF behavior = "quote_request" THEN "quote_request"
  ELSE IF HasQuoteState(quote_state) /\ ~IsComplete(quote_state) THEN "continue"
  ELSE "qa"

ExtractBranches == {"modify", "quote_request", "continue"}

\* lines 688-698, 766-777, 807-817: the answer after a run of the extractor
AnswerAfterExtraction(branch, quote_state) ==
  IF quote_state.missing_fields # <<>>
  THEN Resp(IF branch = "modify" THEN "updated" ELSE "none", {}, "ask",
            generate_quote_collection_response(quote_state.missing_fields), "none")
  ELSE Resp(IF branch = "modify" THEN "updated_recap" ELSE "recap", AllRecapFields,
            "confirm_prompt", "none", "none")

\* lines 710-723
AnswerToRecall(quote_state, requested_fields) ==
  IF IsComplete(quote_state)
  THEN Resp("recap", build_quote_targeted_recap(requested_fields),
            "confirm_prompt", "none", "none")
  ELSE Resp("recap", build_quote_targeted_recap(requested_fields), "ask",
            generate_quote_collection_response(quote_state.missing_fields), "none")

\* lines 662-666: the store with the call's history saved
WithHistory(store, c, conversation_history) ==
  IF InStore(store, c)
  THEN [store EXCEPT ![c].conversation_history = conversation_history]
  ELSE store

\* lines 685-686, 760-762, 803-804: the store with the call's quote_state saved
WithQuoteState(store, c, quote_state) ==
  IF InStore(store, c) THEN [store EXCEPT ![c].quote_state = quote_state] ELSE store

\* lines 681-698, 734-777, 781-817: new_state is what the extractor returned
ExtractionBranch(store, c, behavior, branch, new_state) ==
  [calls |-> WithQuoteState(store, c, new_state),
   answer |-> AnswerAfterExtraction(branch, new_state),
   quote_updated |-> TRUE, behavior |-> behavior,
   classifier_calls |-> 1, extractor_runs |-> 1]

\* lines 668-860: the branch taken for behavior; store holds the history
AnswerFor(store, c, quote_state, behavior, branch, in) ==
  IF branch \in ExtractBranches
  THEN ExtractionBranch(store, c, behavior, branch,
                        extract_quote_info_phone(quote_state, in.env))
  ELSE IF branch = "recall"
  THEN [calls |-> store, answer |-> AnswerToRecall(quote_state, in.req),
        quote_updated |-> FALSE, behavior |-> behavior,
        classifier_calls |-> 1, extractor_runs |-> 0]
  ELSE [calls |-> store,
        answer |-> IF in.qa = "text" THEN Resp("none", {}, "qa", "none", "none")
                   ELSE FallbackResponse,
        quote_updated |-> FALSE, behavior |-> behavior,
        classifier_calls |-> 1, extractor_runs |-> 0]

\* cls.gpt  "ok", or "unavailable" (SDK, endpoint or client missing: the
\*          function returns the fallback before it touches the store)
\* cls.out  the category the classifier call returned, or "error"
\* in.env   the extractor's environment (extract_quote_info_phone)
\* in.req   the fields _extract_recap_requested_fields returned
\* in.qa    "text", "empty" or "error": the answer of the Q&A call
\* Returns the store, the answer, quote_updated and what was called.
generate_answer_text_with_gpt(store, c, user_text, cls, in) ==
  IF cls.gpt # "ok"
  THEN [calls |-> store, answer |-> FallbackResponse, quote_updated |-> FALSE,
        behavior |-> "none", classifier_calls |-> 0, extractor_runs |-> 0]
  ELSE AnswerFor(WithHistory(store, c, TrimHistory(AppendIfNew(HistoryOf(store, c), user_text))),
                 c, QuoteStateOf(store, c), classify_user_behavior_with_llm(cls.out),
                 Branch(QuoteStateOf(store, c), classify_user_behavior_with_llm(cls.out)),
                 in)

\* ------------------------------------------------------------------------
\* acs_call_handler.py: commands to the Telephony Gateway
\* ------------------------------------------------------------------------
\* acs is the state of the gateway client during one handler:
\*   "up"            every command is accepted
\*   "down"          get_acs_client() returns None
\*   "listen_fails"  start_recognizing_media raises, play_media works
AcsStates == {"up", "down", "listen_fails"}

\* speak_error_message: operation_context "error-tts-<debug_tag>"
speak_error_message(c, debug_tag, acs) ==
  IF acs = "down" THEN <<>> ELSE <<Speak(c, <<"error-tts", debug_tag>>)>>

\* start_speech_recognition without the test of lines 1818-1827: it listens
\* to whatever follows the first two characters of the raw id
ListenToAnyCaller(store, c, acs) ==
  LET caller_phone == IF InStore(store, c) THEN store[c].caller_phone ELSE JNull
      caller_raw_id == IF InStore(store, c) THEN store[c].caller_raw_id ELSE JStr(<<>>)
  IN  IF acs = "down" THEN <<>>
      ELSE IF acs = "listen_fails"
      THEN speak_error_message(c, "start-recognize-exception", acs)
      ELSE <<Listen(c, IF Truthy(caller_phone) THEN caller_phone.s
                       ELSE SubSeq(caller_raw_id.s, 3, Len(caller_raw_id.s)))>>

\* start_speech_recognition without line 1821: the raw id is taken with its
\* prefix
ListenToRawId(store, c, acs) ==
  LET caller_phone == IF InStore(store, c) THEN store[c].caller_phone ELSE JNull
      caller_raw_id == IF InStore(store, c) THEN store[c].caller_raw_id ELSE JStr(<<>>)
  IN  IF acs = "down" THEN <<>>
      ELSE IF /\ ~Truthy(caller_phone)
              /\ ~(caller_raw_id.t = "str" /\ Len(caller_raw_id.s) >= 2
                   /\ SubSeq(caller_raw_id.s, 1, 2) = <<"4", ":">>)
      THEN speak_error_message(c, "start-recognize-missing-caller", acs)
      ELSE IF acs = "listen_fails"
      THEN speak_error_message(c, "start-recognize-exception", acs)
      ELSE <<Listen(c, IF Truthy(caller_phone) THEN caller_phone.s ELSE caller_raw_id.s)>>

\* start_speech_recognition: the commands it issues
start_speech_recognition(store, c, acs) ==
  LET caller_phone == IF InStore(store, c) THEN store[c].caller_phone ELSE JNull
      caller_raw_id == IF InStore(store, c) THEN store[c].caller_raw_id ELSE JStr(<<>>)
      target == IF Truthy(caller_phone) THEN caller_phone.s
                ELSE SubSeq(caller_raw_id.s, 3, Len(caller_raw_id.s))
  IN  IF acs = "down" THEN <<>>
      ELSE IF /\ ~Truthy(caller_phone)
              /\ ~(caller_raw_id.t = "str" /\ Len(caller_raw_id.s) >= 2
                   /\ SubSeq(caller_raw_id.s, 1, 2) = <<"4", ":">>)
      THEN speak_error_message(c, "start-recognize-missing-caller", acs)
      ELSE IF acs = "listen_fails"
      THEN speak_error_message(c, "start-recognize-exception", acs)
      ELSE <<Listen(c, target)>>

\* play_answer_message followed by the error message of line 560: the
\* answer and the apology in one turn
PlayAnswerThenError(c, acs) ==
  IF acs \in {"down", "play_fails"} THEN <<>>
  ELSE <<Speak(c, <<"answer-tts">>),
         Speak(c, <<"error-tts", "recognize-completed-exception">>)>>

\* play_answer_message: the commands it issues.  Without a client it
\* returns (lines 1854-1857); a play_media that raises ("play_fails") is
\* logged and nothing else is played (lines 1903-1906)
play_answer_message(c, acs) ==
  IF acs \in {"down", "play_fails"} THEN <<>> ELSE <<Speak(c, <<"answer-tts">>)>>

\* play_welcome_message: the store and the commands
play_welcome_message(store, c, acs) ==
  IF acs = "down" THEN [calls |-> store, cmds |-> <<>>]
  ELSE [calls |-> IF InStore(store, c)
                  THEN [store EXCEPT ![c].welcome_playing = TRUE]
                  ELSE store,
        cmds |-> <<Speak(c, <<"welcome-tts">>)>>]

\* ------------------------------------------------------------------------
\* acs_call_handler.py: handle_recognize_completed
\* ------------------------------------------------------------------------
\* line 387: a transcript counts only if obj[key].strip() is not empty
IsEmptyTranscript(user_text) == Strip(user_text) = <<>>

\* lines 415-419: a call the store does not know gets a record
EnsureCall(store, c) ==
  IF InStore(store, c) THEN store
  ELSE [store EXCEPT ![c] = CallRecord("active", JNull, JStr(<<>>))]

\* lines 510-527: a created quote clears the quote_state of the call if the
\* store still has the call (line 519), a failed creation leaves it
StoreClearedAnyway(store, c, quote_result) ==
  [store EXCEPT ![c].quote_state = NoQuoteState]

\* the resumed turn leaves the store as it finds it
StoreLeftAsIs(store, c, quote_result) == store

\* the quote_state is cleared without the test of line 519, in a record made
\* for the purpose when the store has none
StoreRecreated(store, c, quote_result) ==
  IF quote_result # NoQuote
  THEN [EnsureCall(store, c) EXCEPT ![c].quote_state = NoQuoteState]
  ELSE store

StoreAfterFinalizer(store, c, quote_result) ==
  IF quote_result # NoQuote /\ InStore(store, c)
  THEN [store EXCEPT ![c].quote_state = NoQuoteState]
  ELSE store

\* lines 512-517
SuccessWithoutNumber(quote_result) == Resp("none", {}, "created", "none", "none")

SuccessResponse(quote_result) == Resp("none", {}, "created", "none", quote_result.quote_number)

\* lines 524-527
ApologyResponse == Resp("none", {}, "create_failed", "none", "none")

\* lines 531-536
RecapResponse == Resp("recap", AllRecapFields, "confirm_prompt", "none", "none")

\* a confirmation alone starts the creation
CreateOnConfirmation(quote_state, is_conf) == is_conf

\* line 495: the quote is created when the quote_state read back from the
\* store (lines 463-465) is complete and the caller confirmed
ShouldCreateQuote(quote_state, is_conf) == IsComplete(quote_state) /\ is_conf

\* the quote_state is removed as soon as the quote exists
StoreClearedAtEmail(store, c, quote_result) ==
  [store EXCEPT ![c].quote_state = NoQuoteState]

\* lines 1552-1581: the store when the finalizer awaits send_quote_email.
\* Between the return of create_quote and the await nothing is assigned, and
\* the caller clears quote_state only after the finalizer has returned (line
\* 520): the quote_state the quote was created from is still stored.
StoreAtEmail(store, c, quote_result) == store

\* One dialogue turn (lines 414-546) for a transcript that is not empty.
\*   in.cls, in.env, in.req, in.qa   see generate_answer_text_with_gpt
\*   in.conf  the outcome of the confirmation call (is_confirmation)
\*   in.crm   the CRM during the turn (create_quote_from_state)
\*   in.acs   the gateway client during the turn
\* lines 491-546: the rest of the turn; gen is what
\* generate_answer_text_with_gpt returned (line 458), conversation_history
\* the history before it (line 426).  The observation records what the turn
\* did to the history: "kept" it, "appended" to it (line 656), or appended
\* and "trimmed" it (line 660).
AnswerTranscript(gen, conversation_history, c, user_text, in) ==
  LET quote_state == QuoteStateOf(gen.calls, c)
      conf == is_confirmation(user_text, in.conf)
      creating == ShouldCreateQuote(quote_state, conf.verdict)
      fin == create_quote_from_state(quote_state, in.crm)
      store1 == IF creating THEN StoreAfterFinalizer(gen.calls, c, fin.result)
                ELSE gen.calls
      answer_text ==
        IF creating
        THEN IF fin.result # NoQuote THEN SuccessResponse(fin.result) ELSE ApologyResponse
        ELSE IF gen.quote_updated /\ IsComplete(quote_state) THEN RecapResponse
        ELSE gen.answer
  IN  [calls |-> store1,
       obs |-> [ev |-> "TranscriptReady", call |-> c, text |-> user_text,
                acs |-> in.acs,
                behavior |-> gen.behavior,
                classifier_calls |-> gen.classifier_calls,
                confirm_calls |-> conf.llm_calls,
                extractor_runs |-> gen.extractor_runs,
                is_confirmation |-> conf.verdict,
                history |->
                  IF in.cls.gpt # "ok"
                     \/ AppendIfNew(conversation_history, user_text) = conversation_history
                  THEN "kept"
                  ELSE IF Len(conversation_history) >= HistoryCap THEN "trimmed"
                  ELSE "appended",
                finalizer_calls |-> IF creating THEN 1 ELSE 0,
                finalizer_arg |-> IF creating THEN quote_state ELSE NoQuoteState,
                finalizer_result |-> IF creating THEN fin.result ELSE NoQuote,
                create_calls |-> IF creating THEN fin.create_calls ELSE 0,
                cleared |-> IF creating /\ fin.result # NoQuote THEN quote_state
                            ELSE NoQuoteState,
                response |-> answer_text, cmds |-> play_answer_message(c, in.acs)]]

handle_recognize_completed(store, c, user_text, in) ==
  AnswerTranscript(generate_answer_text_with_gpt(EnsureCall(store, c), c, user_text,
                                                 in.cls, in),
                   HistoryOf(store, c), c, user_text, in)

\* ------------------------------------------------------------------------
\* The inputs of the events
\* ------------------------------------------------------------------------
\* the callers of IncomingCall: from.phoneNumber.value and from.rawId
Callers ==
  { [caller_phone |-> JStr(<<"+","6","1">>), caller_raw_id |-> JStr(<<"4",":","+","6","1">>)],
    [caller_phone |-> JNull, caller_raw_id |-> JStr(<<"4",":","+","6","1">>)],
    [caller_phone |-> JNull, caller_raw_id |-> JStr(<<"8",":","a">>)] }

\* operationContext of PlayCompleted
OperationContexts == { <<"welcome-tts">>, <<"answer-tts">>, <<"error-tts", "generic">> }

\* the environments of one run of the extractor
ExtractorEnvs ==
  { [sf |-> "up", catalog |-> Catalog, llm |-> "ok", out |-> out] :
      out \in ExtractorOutputs }
  \cup { [sf |-> "down", catalog |-> Catalog, llm |-> "ok", out |-> out] :
           out \in { Outputs.SpokenName, Outputs.ZeroQuantity, Outputs.BrokenItems } }
  \cup { [sf |-> "up", catalog |-> Catalog, llm |-> "error", out |-> Outputs.NothingFound] }

\* the outcomes of the Behavior Classifier: the Language Model is not
\* available, or the classification call returned a category, or it failed
\* or returned anything else ("error")
ClassifierOutcomes ==
  { [gpt |-> "unavailable", out |-> "none"] }
  \cup { [gpt |-> "ok", out |-> o] : o \in Behaviors \cup {"error"} }

\* the fields _extract_recap_requested_fields returns
RequestedFieldSets == { {}, {"contact_info", "quote_items"} }

QaOutcomes == {"text", "empty", "error"}

\* the CRM during a run of the finalizer
CrmEnvs ==
  { [sf |-> "up", account |-> "ok", create |-> "ok", number |-> "Q-1", email |-> "sent"],
    [sf |-> "up", account |-> "ok", create |-> "ok", number |-> "Q-1", email |-> "failed"],
    [sf |-> "up", account |-> "fail", create |-> "ok", number |-> "Q-2", email |-> "raised"],
    [sf |-> "up", account |-> "ok", create |-> "fail", number |-> "none", email |-> "sent"],
    [sf |-> "down", account |-> "fail", create |-> "fail", number |-> "none",
     email |-> "sent"] }

\* ------------------------------------------------------------------------
\* The events (handle_acs_webhook dispatches them one at a time)
\* ------------------------------------------------------------------------
Init ==
  /\ calls = [c \in CallIds |-> NoCall]
  /\ last = Observation("none", "c1", <<>>, <<>>, "none")
  /\ turns = 0
  /\ inflight = [c \in CallIds |-> <<>>]

\* handle_incoming_call_event: the gateway answered with connection id c
CallAnswered(c) ==
  \E caller \in Callers, answer \in {"ok", "fail"} :
    /\ calls' = IF answer = "ok"
                THEN [calls EXCEPT ![c] = CallRecord("answered", caller.caller_phone,
                                                     caller.caller_raw_id)]
                ELSE calls
    /\ last' = Observation("CallAnswered", c, <<>>, <<>>, "none")
    /\ UNCHANGED <<turns, inflight>>

\* handle_call_connected_event
CallConnected(c) ==
  \E acs \in AcsStates :
    LET connected == [calls EXCEPT ![c].status = "connected"]
        welcome == play_welcome_message(connected, c, acs)
    IN  /\ calls' = IF InStore(calls, c) THEN welcome.calls ELSE calls
        /\ last' = Observation("CallConnected", c, <<>>,
                               IF InStore(calls, c) THEN welcome.cmds ELSE <<>>,
                               IF InStore(calls, c) THEN acs ELSE "none")
        /\ UNCHANGED <<turns, inflight>>

\* handle_call_disconnected_event
CallDisconnected(c) ==
  /\ calls' = [calls EXCEPT ![c] = NoCall]
  /\ last' = Observation("CallDisconnected", c, <<>>, <<>>, "none")
  /\ UNCHANGED <<turns, inflight>>

\* handle_play_completed_event
PlaybackFinished(c) ==
  \E operation_context \in OperationContexts, acs \in AcsStates :
    LET after == IF InStore(calls, c) /\ operation_context = <<"welcome-tts">>
                 THEN [calls EXCEPT ![c].welcome_played = TRUE]
                 ELSE calls
        listening == /\ InStore(calls, c)
                     /\ operation_context \in {<<"welcome-tts">>, <<"answer-tts">>}
    IN  /\ calls' = after
        /\ last' = Observation("PlaybackFinished", c, operation_context,
                      IF listening THEN start_speech_recognition(after, c, acs) ELSE <<>>,
                      IF listening THEN acs ELSE "none")
        /\ UNCHANGED <<turns, inflight>>

\* handle_recognize_completed, lines 405-410: a transcript without a word
\* (line 387)
EmptyTranscriptReady(c) ==
  \E user_text \in { <<>>, <<" ">> }, acs \in AcsStates :
    /\ IsEmptyTranscript(user_text)
    /\ calls' = calls
    /\ last' = Observation("TranscriptReady", c, user_text,
                           start_speech_recognition(calls, c, acs), acs)
    /\ UNCHANGED <<turns, inflight>>

\* the branch a turn takes, "none" without the Language Model: it decides
\* which of the other inputs the turn consults
BranchOf(store, c, cls) ==
  IF cls.gpt = "ok"
  THEN Branch(QuoteStateOf(store, c), classify_user_behavior_with_llm(cls.out))
  ELSE "none"

\* the outcomes of the confirmation call: state "confirm", or any other
\* state or a failure of the call ("other"); the endpoint the call needs is
\* the one the classifier needs
ConfsFor(user_text, cls) ==
  IF cls.gpt # "ok" THEN { "unconfigured" }
  ELSE IF IsFastPathConfirmation(user_text) THEN { "other" }
  ELSE {"confirm", "other"}

\* the CRM is consulted only by a turn that runs the finalizer
IdleCrm ==
  [sf |-> "down", account |-> "fail", create |-> "fail", number |-> "none",
   email |-> "sent"]

CrmsFor(store, c, user_text, in) ==
  IF /\ is_confirmation(user_text, in.conf).verdict
     /\ handle_recognize_completed(store, c, user_text, in).obs.finalizer_calls = 1
  THEN CrmEnvs ELSE { IdleCrm }

\* handle_recognize_completed, lines 412-546: a dialogue turn whose
\* transcript is one of utterances, with the extractor in one of envs and
\* the gateway in one of gateways; limit bounds the turns of a behaviour
Turn(c, utterances, envs, gateways, limit) ==
  /\ turns < limit
  /\ \E user_text \in { t \in utterances : ~IsEmptyTranscript(t) },
        cls \in ClassifierOutcomes :
     \E env \in IF BranchOf(calls, c, cls) \in ExtractBranches THEN envs
                 ELSE { e \in envs : e.llm = "error" },
        req \in IF BranchOf(calls, c, cls) = "recall" THEN RequestedFieldSets ELSE { {} },
        qa \in IF BranchOf(calls, c, cls) = "qa" THEN QaOutcomes ELSE { "error" },
        conf \in ConfsFor(user_text, cls),
        acs \in gateways :
       LET in == [cls |-> cls, env |-> env, req |-> req, qa |-> qa,
                  conf |-> conf, crm |-> IdleCrm, acs |-> acs]
       IN  \E crm \in CrmsFor(calls, c, user_text, in) :
             LET r == handle_recognize_completed(calls, c, user_text,
                                                 [in EXCEPT !.crm = crm])
             IN  /\ calls' = r.calls
                 /\ last' = r.obs
                 /\ turns' = turns + 1
                 /\ UNCHANGED inflight

\* ------------------------------------------------------------------------
\* The call lifecycle: every event, with a small dialogue
\* ------------------------------------------------------------------------
\* the transcripts of the callers; the first one normalises to "confirm"
LifecycleUtterances == { <<" ","C","o","n","f","i","r","m",".">>, <<"h","i">> }

LifecycleEnvs ==
  { e \in ExtractorEnvs :
      \/ e.llm = "error"
      \/ e.sf = "up" /\ Truthy(e.out.customer_name) /\ e.out.quote_items # <<>> }

TranscriptReady(c) ==
  Turn(c, LifecycleUtterances, LifecycleEnvs, {"up", "down", "play_fails"}, MaxCallTurns)

Next ==
  \E c \in CallIds :
    \/ CallAnswered(c)
    \/ CallConnected(c)
    \/ CallDisconnected(c)
    \/ PlaybackFinished(c)
    \/ EmptyTranscriptReady(c)
    \/ TranscriptReady(c)

Spec == Init /\ [][Next]_vars

\* ------------------------------------------------------------------------
\* The dialogue of one call, with every utterance and every extraction
\* ------------------------------------------------------------------------
\* the transcripts of the caller; the first one normalises to "yes"
DialogueUtterances == { <<"Y","e","s","!">>, <<"h","i">> }

DialogueNext ==
  \E c \in CallIds : Turn(c, DialogueUtterances, ExtractorEnvs, {"up"}, MaxTurns)

\* the call was answered and connected, the welcome was played and the
\* handler of PlayCompleted has started to listen: a state Spec reaches
DialogueInit ==
  /\ calls = [c \in CallIds |->
               [CallRecord("connected", JStr(<<"+","6","1">>), JStr(<<"4",":","+","6","1">>))
                  EXCEPT !.welcome_playing = TRUE, !.welcome_played = TRUE]]
  /\ last = Observation("PlaybackFinished", "c1", <<"welcome-tts">>,
                        <<Listen("c1", <<"+","6","1">>)>>, "up")
  /\ turns = 0
  /\ inflight = [c \in CallIds |-> <<>>]

DialogueSpec == DialogueInit /\ [][DialogueNext]_vars

\* ------------------------------------------------------------------------
\* A long dialogue of one call: the conversation history fills up
\* ------------------------------------------------------------------------
HistoryNext ==
  \E c \in CallIds :
    Turn(c, DialogueUtterances,
         { e \in ExtractorEnvs : e.llm = "error" \/ e.out = Outputs.NothingFound },
         {"up"}, MaxHistoryTurns)

HistorySpec == DialogueInit /\ [][HistoryNext]_vars

\* ------------------------------------------------------------------------
\* One call from the incoming call to the confirmation of a quote
\* ------------------------------------------------------------------------
\* the transcripts of the caller, in their order
ScenarioScript ==
  << <<"I"," ","n","e","e","d"," ","a"," ","q","u","o","t","e">>,
     <<"A","l"," ","2"," ","P","r","o">>,
     <<"y","e","s">> >>

\* the extractor during the n-th transcript: it finds nothing, then the
\* name, the e-mail address and one item, then anything
ScenarioEnvs(n) ==
  IF n = 1 THEN { e \in ExtractorEnvs : e.sf = "up" /\ e.llm = "ok"
                                         /\ e.out = Outputs.NothingFound }
  ELSE IF n = 2 THEN { e \in ExtractorEnvs : e.sf = "up" /\ e.llm = "ok"
                                              /\ e.out = Outputs.WholeQuote }
  ELSE ExtractorEnvs

\* handle_acs_webhook dispatching the events of the call in their order: the
\* call is answered, then connected, then the transcripts arrive
ScenarioNext ==
  \E c \in CallIds :
    \/ ~InStore(calls, c) /\ turns = 0 /\ CallAnswered(c)
    \/ InStore(calls, c) /\ calls[c].status = "answered" /\ CallConnected(c)
    \/ /\ InStore(calls, c) /\ calls[c].status = "connected"
       /\ turns < Len(ScenarioScript)
       /\ Turn(c, {ScenarioScript[turns + 1]}, ScenarioEnvs(turns + 1), {"up"},
               Len(ScenarioScript))

ScenarioSpec == Init /\ [][ScenarioNext]_vars

\* ------------------------------------------------------------------------
\* Overlapping turns.  The calls of the Language Model, of the CRM and of the
\* gateway are synchronous calls (AzureOpenAI, simple_salesforce and
\* CallAutomationClient are the blocking clients): a handler that has
\* started runs on the event loop without interruption, except at the one
\* await that yields, `await send_quote_email` (line 1581), which the
\* finalizer reaches after create_quote returned a quote for a contact_info
\* containing "@".  While a turn waits there, other events are handled:
\* further transcripts of the call, and its disconnection.
\* ------------------------------------------------------------------------
\* the transcript of the overlapping turns: the caller's confirmation,
\* delivered more than once
ConcurrentUtterances == { <<"Y","e","s","!">> }

\* the extractor during the overlapping turns
ConcurrentEnvs ==
  { e \in ExtractorEnvs :
      \/ e.llm = "error"
      \/ e.sf = "up" /\ e.out \in {Outputs.NothingFound, Outputs.CallerDetails} }

\* the first transcript of the call gives the whole quote
FirstUtterances == { <<"h","i">> }

FirstEnvs ==
  { e \in ExtractorEnvs : e.sf = "up" /\ e.llm = "ok" /\ e.out = Outputs.WholeQuote }

\* lines 1552-1581: the turn r has called the finalizer, CreateQuote returned
\* a quote and send_quote_email is awaited.  The turn stops there: the store
\* is the one generate_answer_text_with_gpt left, nothing has been played
Suspended(r, store, c, crm) ==
  /\ r.obs.finalizer_calls = 1
  /\ r.obs.finalizer_result # NoQuote
  /\ create_quote_from_state(r.obs.finalizer_arg, crm).email_calls = 1
  /\ calls' = StoreAtEmail(store, c, r.obs.finalizer_result)
  /\ last' = [r.obs EXCEPT !.ev = "TurnSuspended", !.cleared = NoQuoteState,
                           !.response = NoResponse, !.cmds = <<>>]
  /\ inflight' = [inflight EXCEPT ![c] = Append(@, r.obs)]

\* lines 455-509 up to the await, for the answer gen
TurnToEmail(gen, c, user_text, in) ==
  Suspended(AnswerTranscript(gen, HistoryOf(calls, c), c, user_text, in),
            gen.calls, c, in.crm)

\* handle_recognize_completed, lines 412-509 and 1487-1581: a dialogue turn
\* up to the await of send_quote_email.  The turn has stored what
\* generate_answer_text_with_gpt saved and has called CreateQuote; the rest
\* of it (lines 1582-1606 and 510-546) waits in inflight.
SuspendTurn(c) ==
  /\ turns \in 1..(MaxConcurrentTurns - 1)
  /\ turns' = turns + 1
  /\ \E user_text \in ConcurrentUtterances, cls \in ClassifierOutcomes :
     \E env \in IF BranchOf(calls, c, cls) \in ExtractBranches THEN ConcurrentEnvs
                 ELSE { e \in ConcurrentEnvs : e.llm = "error" },
        req \in IF BranchOf(calls, c, cls) = "recall" THEN RequestedFieldSets ELSE { {} },
        qa \in IF BranchOf(calls, c, cls) = "qa" THEN QaOutcomes ELSE { "error" },
        conf \in ConfsFor(user_text, cls),
        crm \in { e \in CrmEnvs : e.sf = "up" /\ e.create = "ok" } :
       TurnToEmail(generate_answer_text_with_gpt(
                     EnsureCall(calls, c), c, user_text, cls,
                     [cls |-> cls, env |-> env, req |-> req, qa |-> qa,
                      conf |-> conf, crm |-> crm, acs |-> "up"]),
                   c, user_text,
                   [cls |-> cls, env |-> env, req |-> req, qa |-> qa,
                    conf |-> conf, crm |-> crm, acs |-> "up"])

\* lines 1582-1606 and 510-546: send_quote_email has returned or raised, the
\* finalizer returns the quote, the handler clears quote_state if the store
\* still has the call and plays the success message
ResumeTurn(c) ==
  \E i \in DOMAIN inflight[c] :
    /\ calls' = StoreAfterFinalizer(calls, c, inflight[c][i].finalizer_result)
    /\ last' = [inflight[c][i] EXCEPT !.ev = "TurnResumed",
                                      !.cleared = QuoteStateOf(calls, c)]
    /\ inflight' = [inflight EXCEPT ![c] =
                      SubSeq(@, 1, i - 1) \o SubSeq(@, i + 1, Len(@))]
    /\ UNCHANGED turns

ConcurrentNext ==
  \E c \in CallIds :
    \/ Turn(c, IF turns = 0 THEN FirstUtterances ELSE ConcurrentUtterances,
            IF turns = 0 THEN FirstEnvs ELSE ConcurrentEnvs, {"up"}, MaxConcurrentTurns)
    \/ SuspendTurn(c)
    \/ ResumeTurn(c)
    \/ inflight[c] # <<>> /\ CallDisconnected(c)

ConcurrentSpec == DialogueInit /\ [][ConcurrentNext]_vars

\* ------------------------------------------------------------------------
\* Properties
\* ------------------------------------------------------------------------
\* the step is a dialogue turn of call c
IsTurnOf(c) == turns' = turns + 1 /\ last'.call = c

\* the stored extracted data of call c
StoredExtracted(store, c) == CurrentExtracted(QuoteStateOf(store, c))

\* C1 -- Merge monotonicity.  In every reachable state and for every
\* further run of the extractor on the stored quote_state (failing runs
\* included): a scalar field that is non-empty stays non-empty, and a run
\* that extracts null or an empty value for the field leaves the stored
\* value unchanged.
C1_MergeMonotonicity ==
  \A c \in CallIds, env \in ExtractorEnvs :
    \A i \in 1..Len(ScalarFields) :
      LET field == ScalarFields[i]
          old == StoredExtracted(calls, c)
          new == extract_quote_info_phone(QuoteStateOf(calls, c), env).extracted
      IN  Truthy(old[field]) =>
            /\ Truthy(new[field])
            /\ (env.llm # "ok" \/ ~Truthy(env.out[field])) => new[field] = old[field]

\* no two items of the list carry the same product name
DistinctNames(items) ==
  \A i, j \in 1..Len(items) :
    i < j => items[i].product_package # items[j].product_package

\* an extraction that found the items alone, with the CRM up or down
ItemsFound(sf, items) ==
  [sf |-> sf, catalog |-> Catalog, llm |-> "ok",
   out |-> Out(JNull, JNull, JNull, JNull, items)]

\* C2 -- Quote item merge.  In every reachable state the stored quote_items
\* of a call never hold two items with the same product name; and
\* extracting {Pro: 2} and then {Pro: 5, Lite: 1} yields exactly
\* [Pro: 5, Lite: 1], with or without the catalog.
C2_QuoteItemMerge ==
  /\ \A c \in CallIds : DistinctNames(GetItems(StoredExtracted(calls, c)))
  /\ \A sf \in {"up", "down"} :
       LET first == extract_quote_info_phone(NoQuoteState,
                       ItemsFound(sf, <<Item(Pro, JNum(2))>>))
           second == extract_quote_info_phone(first,
                       ItemsFound(sf, <<Item(Pro, JNum(5)), Item(Lite, JNum(1))>>))
       IN  GetItems(second.extracted) = <<Item(Pro, JNum(5)), Item(Lite, JNum(1))>>

\* the list holds an item with a product name and a quantity above zero
HasOrderableItem(items) ==
  \E i \in 1..Len(items) :
    /\ IsDict(items[i])
    /\ Truthy(items[i].product_package)
    /\ items[i].quantity.t = "num"
    /\ items[i].quantity.n > 0

\* name and contact are there and an item can be ordered
RequiredFieldsPresent(extracted) ==
  /\ Truthy(extracted.customer_name)
  /\ Truthy(extracted.contact_info)
  /\ HasOrderableItem(GetItems(extracted))

\* C3, as claimed -- in every reachable state, for every call with a
\* quote_state, is_complete is true if and only if name, contact and an
\* orderable item are present, and if and only if missing_fields is empty.
C3_CompleteIffFieldsPresent ==
  \A c \in CallIds :
    LET quote_state == QuoteStateOf(calls, c)
    IN  HasQuoteState(quote_state) =>
          /\ quote_state.is_complete <=> RequiredFieldsPresent(quote_state.extracted)
          /\ quote_state.is_complete <=> (quote_state.missing_fields = <<>>)

\* C3, amended -- in every reachable state, for every call with a
\* quote_state: is_complete is true if and only if missing_fields is empty;
\* is_complete implies that name, contact and an orderable item are present;
\* and a quote_state that is not complete although they are present is the
\* result of a failed run (missing_fields names all three required fields).
C3_CompleteImpliesFieldsPresent ==
  \A c \in CallIds :
    LET quote_state == QuoteStateOf(calls, c)
    IN  HasQuoteState(quote_state) =>
          /\ quote_state.is_complete <=> (quote_state.missing_fields = <<>>)
          /\ quote_state.is_complete => RequiredFieldsPresent(quote_state.extracted)
          /\ (~quote_state.is_complete /\ RequiredFieldsPresent(quote_state.extracted))
               => quote_state.missing_fields = <<"customer_name", "contact_info", "quote_items">>

\* C3, witness: a run of the extractor left a complete quote_state
C3_Witness ==
  /\ last.ev = "TranscriptReady" /\ last.extractor_runs = 1
  /\ IsComplete(QuoteStateOf(calls, last.call))

\* C4 -- Disconnect clears state.  After CallDisconnected(c) the store has
\* no record for c, and a TranscriptReady(c, text) handled next creates no
\* record for c and leaves the store as it is.
C4_DisconnectClearsState ==
  [][ /\ last'.ev = "CallDisconnected" => ~InStore(calls', last'.call)
      /\ (last.ev = "CallDisconnected" /\ last'.ev = "TranscriptReady"
          /\ last'.call = last.call)
           => (~InStore(calls', last'.call) /\ calls' = calls) ]_vars

\* C5 -- CRM commit failure preserves state.  When the finalizer was invoked
\* in the last turn and returned null, the call's quote_state is the one
\* that was passed to the finalizer, it is still complete, and the response
\* is the apology.
C5_FailurePreservesState ==
  (last.ev = "TranscriptReady" /\ last.finalizer_calls = 1
   /\ last.finalizer_result = [t |-> "null"])
    => /\ InStore(calls, last.call)
       /\ calls[last.call].quote_state = last.finalizer_arg
       /\ IsComplete(calls[last.call].quote_state)
       /\ last.response.body = "create_failed"

\* C5, witness: the finalizer was invoked and the CRM did not create the quote
C5_Witness ==
  /\ last.ev = "TranscriptReady" /\ last.finalizer_calls = 1
  /\ last.create_calls = 1
  /\ last.finalizer_result = [t |-> "null"]
  /\ IsComplete(QuoteStateOf(calls, last.call))

\* C6 -- On finalizer success the call has no quote_state when the turn
\* ends, and the response is the success message with the quote number the
\* CRM returned.
C6_SuccessClearsState ==
  (last.ev = "TranscriptReady" /\ last.finalizer_calls = 1
   /\ last.finalizer_result # [t |-> "null"])
    => /\ InStore(calls, last.call)
       /\ ~HasQuoteState(calls[last.call].quote_state)
       /\ last.response.body = "created"
       /\ last.response.number = last.finalizer_result.quote_number
       /\ last.response.number \in { e.number : e \in CrmEnvs } \ {"none"}

\* C6, witness: the CRM created the quote Q-2 in the last turn
C6_Witness ==
  /\ last.ev = "TranscriptReady" /\ last.finalizer_calls = 1
  /\ last.finalizer_result = [t |-> "quote", quote_number |-> "Q-2"]
  /\ last.finalizer_arg.is_complete

\* C7 -- Confirmation is honoured.  A turn that starts with a complete
\* quote_state and whose utterance normalises to "yes" or "confirm" invokes
\* the finalizer, whatever the classifier and the extractor do.
C7_ConfirmationHonoured ==
  [][ \A c \in CallIds :
        (IsTurnOf(c) /\ IsComplete(QuoteStateOf(calls, c))
         /\ NormalizeUtterance(last'.text) \in { <<"y","e","s">>, <<"c","o","n","f","i","r","m">> })
          => last'.finalizer_calls = 1 ]_vars

\* C8 -- Confirmation fast path.  A turn that starts with a complete
\* quote_state and whose utterance normalises to "yes" or "confirm" is
\* treated as confirmed and issues no classification call to the Language
\* Model: neither the Behavior Classifier's nor the confirmation check's.
C8_FastPathWithoutClassifier ==
  [][ \A c \in CallIds :
        (IsTurnOf(c) /\ IsComplete(QuoteStateOf(calls, c))
         /\ NormalizeUtterance(last'.text) \in { <<"y","e","s">>, <<"c","o","n","f","i","r","m">> })
          => /\ last'.is_confirmation
             /\ last'.confirm_calls = 0
             /\ last'.classifier_calls = 0 ]_vars

\* C9 -- Exactly one branch per turn.  No turn both runs the extractor and
\* invokes the finalizer.
C9_OneBranchPerTurn ==
  last.ev = "TranscriptReady" => ~(last.extractor_runs > 0 /\ last.finalizer_calls > 0)

\* C10 -- Recall never mutates state.  In a turn that starts with a
\* quote_state and whose behavior is recall_quote_info the extractor is not
\* called, the quote_state at the end is the one at the start, and the
\* response is a recap followed by the prompt for a missing field (quote
\* not complete) or by the confirmation prompt (quote complete).
C10_RecallKeepsState ==
  [][ \A c \in CallIds :
        (IsTurnOf(c) /\ HasQuoteState(QuoteStateOf(calls, c))
         /\ last'.behavior = "recall_quote_info")
          => /\ last'.extractor_runs = 0
             /\ QuoteStateOf(calls', c) = QuoteStateOf(calls, c)
             /\ last'.response.lead = "recap"
             /\ last'.response.body =
                  (IF IsComplete(QuoteStateOf(calls, c)) THEN "confirm_prompt" ELSE "ask") ]_vars

\* C11 -- A general_qa turn does not touch quote_state.  In every turn whose
\* behavior is general_qa, whatever quote_state the call has at the start
\* (none, incomplete, complete), the extractor is not run and the call's
\* quote_state at the end is the one at the start.
C11_GeneralQaKeepsState ==
  [][ \A c \in CallIds :
        (IsTurnOf(c) /\ last'.behavior = "general_qa")
          => /\ last'.extractor_runs = 0
             /\ QuoteStateOf(calls', c) = QuoteStateOf(calls, c) ]_vars

\* C12 -- A complete quote is restated.  A turn that starts with a complete
\* quote_state and whose utterance is no confirmation and was classified
\* neither modify_quote_info nor recall_quote_info answers with the full
\* recap and the confirmation prompt, and does not run the extractor.
C12_CompleteQuoteRestated ==
  [][ \A c \in CallIds :
        (IsTurnOf(c) /\ IsComplete(QuoteStateOf(calls, c))
         /\ ~last'.is_confirmation
         /\ last'.behavior \in {"quote_request", "general_qa"})
          => /\ last'.extractor_runs = 0
             /\ last'.response.lead = "recap"
             /\ last'.response.fields = AllRecapFields
             /\ last'.response.body = "confirm_prompt" ]_vars

\* the turn is a collection turn for the quote_state it starts with
IsCollectionTurn(quote_state, behavior) ==
  \/ ~HasQuoteState(quote_state) /\ behavior = "quote_request"
  \/ /\ HasQuoteState(quote_state) /\ ~IsComplete(quote_state)
     /\ behavior \in {"quote_request", "modify_quote_info"}

\* C13 -- Collection turns.  In a turn whose behavior is quote_request and
\* that starts without quote_state, or that starts with an incomplete
\* quote_state and whose behavior is quote_request or modify_quote_info:
\* the extractor is run exactly once, the call's quote_state at the end is
\* the result of a run of the extractor on the quote_state at the start,
\* and the response is the prompt for one required field when that result
\* has missing fields, and the full recap with the confirmation prompt when
\* it has none.
C13_CollectionTurn ==
  [][ \A c \in CallIds :
        (IsTurnOf(c) /\ IsCollectionTurn(QuoteStateOf(calls, c), last'.behavior))
          => /\ last'.extractor_runs = 1
             /\ \E env \in ExtractorEnvs :
                  QuoteStateOf(calls', c) =
                    extract_quote_info_phone(QuoteStateOf(calls, c), env)
             /\ HasQuoteState(QuoteStateOf(calls', c))
             /\ IF QuoteStateOf(calls', c).missing_fields # <<>>
                THEN /\ last'.response.body = "ask"
                     /\ last'.response.field \in Range(RequiredFields)
                ELSE /\ last'.response.lead \in {"recap", "updated_recap"}
                     /\ last'.response.fields = AllRecapFields
                     /\ last'.response.body = "confirm_prompt" ]_vars

\* the non-empty lists of distinct required fields, in any order
MissingFieldLists ==
  { l \in UNION { [1..n -> Range(RequiredFields)] : n \in 1..Len(RequiredFields) } :
      \A i, j \in DOMAIN l : i # j => l[i] # l[j] }

\* the field of the list that comes first in the order name, contact, items
FirstByPriority(missing_fields) ==
  RequiredFields[CHOOSE i \in 1..Len(RequiredFields) :
                   /\ RequiredFields[i] \in Range(missing_fields)
                   /\ \A j \in 1..(i - 1) : RequiredFields[j] \notin Range(missing_fields)]

\* C14 -- The missing-field prompt asks for exactly one field: for every
\* non-empty list of distinct required fields it is the first of
\* customer_name, contact_info, quote_items that the list holds; and in
\* every reachable state whose last response is the prompt for a field, that
\* field is the first by this priority of the call's missing_fields.
C14_MissingFieldPriority ==
  /\ \A missing_fields \in MissingFieldLists :
       generate_quote_collection_response(missing_fields) = FirstByPriority(missing_fields)
  /\ (last.ev = "TranscriptReady" /\ last.response.body = "ask")
       => /\ HasQuoteState(QuoteStateOf(calls, last.call))
          /\ QuoteStateOf(calls, last.call).missing_fields \in MissingFieldLists
          /\ last.response.field =
               FirstByPriority(QuoteStateOf(calls, last.call).missing_fields)

\* C14, witness: with the name and the contact both missing the last turn
\* asked for the name
C14_Witness ==
  /\ last.ev = "TranscriptReady" /\ last.response.body = "ask"
  /\ last.response.field = "customer_name"
  /\ QuoteStateOf(calls, last.call).missing_fields = <<"customer_name", "contact_info">>

\* C15 -- Extractor failure policy.  In every reachable state, every run of
\* the extractor on the call's quote_state that fails (the Language Model
\* call or the parsing of its output fails, or the post-processing raises)
\* returns is_complete = false, all three required fields as missing_fields
\* and an extracted structure equal to the one the call has before the run.
C15_FailureReturnsPriorExtracted ==
  \A c \in CallIds, env \in ExtractorEnvs :
    LET old == StoredExtracted(calls, c)
        result == extract_quote_info_phone(QuoteStateOf(calls, c), env)
        failed == \/ env.llm # "ok"
                  \/ ValidationRaises(GetItems(
                       MergeExtracted(old, env.out,
                                      IF env.sf = "up" THEN env.catalog ELSE <<>>)))
    IN  failed => /\ ~result.is_complete
                  /\ result.missing_fields = RequiredFields
                  /\ result.extracted = old

\* C16 -- History cap.  The conversation_history of a call never has more
\* than 10 entries; and a turn that appends the user's message to a history
\* of 10 entries leaves 10 entries: the old ones without the oldest, in
\* their order, and then the new message.
C16_HistoryCap ==
  /\ [](\A c \in CallIds : Len(HistoryOf(calls, c)) <= 10)
  /\ [][ \A c \in CallIds :
           (IsTurnOf(c) /\ last'.classifier_calls = 1
            /\ Len(HistoryOf(calls, c)) = 10
            /\ HistoryOf(calls, c)[10].content # last'.text)
             => HistoryOf(calls', c) =
                  Tail(HistoryOf(calls, c)) \o <<[role |-> "user", content |-> last'.text]>> ]_vars

\* C16, witness: the last turn appended to a full history
C16_Witness ==
  /\ last.ev = "TranscriptReady" /\ last.history = "trimmed"
  /\ Len(HistoryOf(calls, last.call)) = 10
  /\ HistoryOf(calls, last.call)[10].content = last.text

\* no two adjacent entries are user messages with the same content
NoAdjacentDuplicates(conversation_history) ==
  \A i \in 1..(Len(conversation_history) - 1) :
    ~(/\ conversation_history[i].role = "user"
      /\ conversation_history[i + 1].role = "user"
      /\ conversation_history[i].content = conversation_history[i + 1].content)

\* C17 -- Retry protection.  A turn whose utterance is the content of the
\* last entry of the call's history leaves the history as it is; and in
\* every reachable state no two adjacent entries of a history are user
\* messages with the same content.
C17_RetryProtection ==
  /\ [](\A c \in CallIds : NoAdjacentDuplicates(HistoryOf(calls, c)))
  /\ [][ \A c \in CallIds :
           (IsTurnOf(c) /\ HistoryOf(calls, c) # <<>>
            /\ HistoryOf(calls, c)[Len(HistoryOf(calls, c))].content = last'.text)
             => HistoryOf(calls', c) = HistoryOf(calls, c) ]_vars

\* C17, witness: the last turn, with the Language Model available, repeated
\* the utterance before it and the history has it once
C17_Witness ==
  /\ last.ev = "TranscriptReady" /\ last.classifier_calls = 1 /\ last.history = "kept"
  /\ Len(HistoryOf(calls, last.call)) >= 2
  /\ HistoryOf(calls, last.call)[Len(HistoryOf(calls, last.call))].content = last.text

\* C18 -- Duplicate answered events do not reset state.  Handling
\* CallAnswered for a call id that has a record leaves the record's status,
\* conversation_history and quote_state as they are.
C18_DuplicateAnsweredKeepsState ==
  [][ \A c \in CallIds :
        (last'.ev = "CallAnswered" /\ last'.call = c /\ InStore(calls, c))
          => /\ InStore(calls', c)
             /\ calls'[c].status = calls[c].status
             /\ calls'[c].conversation_history = calls[c].conversation_history
             /\ calls'[c].quote_state = calls[c].quote_state ]_vars

\* C19 -- Unknown call id is a no-op.  Handling CallConnected,
\* CallDisconnected, PlaybackFinished or TranscriptReady for a call id
\* without a record leaves the store as it is.
C19_UnknownCallNoOp ==
  [][ \A c \in CallIds :
        (~InStore(calls, c) /\ last'.call = c
         /\ last'.ev \in {"CallConnected", "CallDisconnected", "PlaybackFinished",
                          "TranscriptReady"})
          => calls' = calls ]_vars

\* C20 -- Empty transcript.  Handling a TranscriptReady without a transcript
\* leaves the store as it is and issues no Speak command (no answer and no
\* error message): every command it issues is a Listen for the call.
C20_EmptyTranscriptRelistens ==
  [][ (last'.ev = "TranscriptReady" /\ IsEmptyTranscript(last'.text))
        => /\ calls' = calls
           /\ \A i \in 1..Len(last'.cmds) :
                last'.cmds[i].cmd = "Listen" /\ last'.cmds[i].call = last'.call ]_vars

\* C22: the Behavior Classifier returns one of the four categories for every
\* outcome of the classification call, and general_qa when the call failed
\* or returned no known category; every turn that consulted it took one of
\* the four categories, and the classifier itself (an operator of the
\* outcome alone) writes nothing to the call store.
C22_ClassifierTotal ==
  /\ \A cls \in ClassifierOutcomes :
       /\ classify_user_behavior_with_llm(cls.out) \in Behaviors
       /\ cls.out \notin Behaviors =>
            classify_user_behavior_with_llm(cls.out) = "general_qa"
       /\ cls.out \in Behaviors => classify_user_behavior_with_llm(cls.out) = cls.out
  /\ last.classifier_calls = 1 => last.behavior \in Behaviors

\* a turn consulted the classifier and went on as general Q&A
C22_Witness ==
  /\ last.ev = "TranscriptReady"
  /\ last.classifier_calls = 1
  /\ last.behavior = "general_qa"

\* C27: every record of the store has status "answered" or "connected", and
\* while a record exists its status never goes from "connected" back to
\* "answered".
C27_StatusLifecycle ==
  /\ [](\A c \in CallIds :
          InStore(calls, c) => calls[c].status \in {"answered", "connected"})
  /\ [][\A c \in CallIds :
          (InStore(calls, c) /\ calls[c].status = "connected" /\ InStore(calls', c))
            => calls'[c].status # "answered"]_vars

\* C27, first half alone: the statuses of the records
C27_StatusValues ==
  \A c \in CallIds : InStore(calls, c) => calls[c].status \in {"answered", "connected"}

\* C27, second half alone: no step takes a record from connected to answered
C27_NoWayBack ==
  [][\A c \in CallIds :
       (InStore(calls, c) /\ calls[c].status = "connected" /\ InStore(calls', c))
         => calls'[c].status # "answered"]_vars

\* what C28 says of one run of the finalizer on quote_state with the CRM crm
FinalizerContract(quote_state, crm) ==
  LET fin == create_quote_from_state(quote_state, crm)
      extracted == CurrentExtracted(quote_state)
      usable == /\ Truthy(extracted.customer_name)
                /\ Truthy(extracted.contact_info)
                /\ GetItems(extracted) # <<>>
  IN  /\ fin.result = NoQuote \/ fin.result.t = "quote"
      /\ (~usable \/ crm.sf # "up") => (fin.result = NoQuote /\ fin.create_calls = 0)
      /\ (usable /\ crm.sf = "up" /\ crm.create # "ok")
           => (fin.result = NoQuote /\ fin.create_calls = 1)
      /\ (usable /\ crm.sf = "up" /\ crm.create = "ok")
           => /\ fin.result = [t |-> "quote", quote_number |-> crm.number]
              /\ fin.create_calls = 1

C29_FinalizerPreconditions ==
  /\ last.finalizer_calls = 1 =>
       (last.finalizer_arg.t = "qs" /\ last.finalizer_arg.is_complete)
  /\ last.create_calls = 1 =>
       /\ last.finalizer_calls = 1
       /\ Truthy(CurrentExtracted(last.finalizer_arg).customer_name)
       /\ Truthy(CurrentExtracted(last.finalizer_arg).contact_info)
       /\ GetItems(CurrentExtracted(last.finalizer_arg)) # <<>>
  /\ \A crm \in CrmEnvs, c \in CallIds :
       LET fin == create_quote_from_state(QuoteStateOf(calls, c), crm)
       IN  fin.create_calls = 1 =>
             /\ fin.create_args = CurrentExtracted(QuoteStateOf(calls, c))
             /\ Truthy(fin.create_args.customer_name)
             /\ Truthy(fin.create_args.contact_info)
             /\ GetItems(fin.create_args) # <<>>

\* a turn invoked the finalizer and the finalizer called CreateQuote
C29_Witness == last.finalizer_calls = 1 /\ last.create_calls = 1

\* C30: when the events are handled one after the other, the turn that
\* follows a turn whose finalizer succeeded does not invoke the finalizer
\* if its transcript is "yes" or "confirm", whatever the classifier and the
\* extractor return.
C30_NoResubmission ==
  [][\A c \in CallIds :
       (/\ last.ev = "TranscriptReady" /\ last.call = c
        /\ last.finalizer_calls = 1 /\ last.finalizer_result # NoQuote
        /\ IsTurnOf(c)
        /\ IsFastPathConfirmation(last'.text))
         => last'.finalizer_calls = 0]_vars

\* C30 for the turns that run no extraction: the cleared quote_state is
\* not complete, so the confirmation finds nothing to submit
C30_NoResubmissionWithoutExtraction ==
  [][\A c \in CallIds :
       (/\ last.ev = "TranscriptReady" /\ last.call = c
        /\ last.finalizer_calls = 1 /\ last.finalizer_result # NoQuote
        /\ IsTurnOf(c)
        /\ IsFastPathConfirmation(last'.text)
        /\ last'.extractor_runs = 0)
         => last'.finalizer_calls = 0]_vars

\* the number a Listen for call c is addressed to: the caller's phone
\* number, or the raw id "4:<number>" without its prefix; <<>> when the
\* record has neither
CallerNumber(store, c) ==
  IF Truthy(store[c].caller_phone) THEN store[c].caller_phone.s
  ELSE IF /\ Len(store[c].caller_raw_id.s) >= 2
          /\ SubSeq(store[c].caller_raw_id.s, 1, 2) = <<"4", ":">>
  THEN SubSeq(store[c].caller_raw_id.s, 3, Len(store[c].caller_raw_id.s))
  ELSE <<>>

\* the commands of kind cmd among cmds
CommandsOf(cmds, cmd) == { i \in DOMAIN cmds : cmds[i].cmd = cmd }

C26_FirstTurn ==
  (turns = 1 /\ last.ev = "TranscriptReady") =>
    /\ HasQuoteState(QuoteStateOf(calls, last.call))
    /\ Range(QuoteStateOf(calls, last.call).missing_fields)
         = {"customer_name", "contact_info", "quote_items"}
    /\ last.response.body = "ask" /\ last.response.field = "customer_name"

\* C26, second transcript: the extraction supplied the name, the e-mail
\* address and one item, so the stored quote_state is complete and the
\* answer is the recap with the request to confirm
C26_SecondTurn ==
  (turns = 2 /\ last.ev = "TranscriptReady") =>
    /\ IsComplete(QuoteStateOf(calls, last.call))
    /\ last.finalizer_calls = 0
    /\ last.response.lead \in {"recap", "updated_recap"}
    /\ last.response.body = "confirm_prompt"

\* C26, third transcript ("yes") after a second one that went as above:
\* the finalizer is invoked exactly once, and when it succeeds quote_state
\* is cleared and the success message is spoken
C26_ThirdTurn ==
  [][\A c \in CallIds :
       (/\ turns = 2 /\ IsTurnOf(c)
        /\ IsComplete(QuoteStateOf(calls, c)) /\ last.finalizer_calls = 0)
         => /\ last'.finalizer_calls = 1
            /\ last'.finalizer_result # NoQuote =>
                 /\ ~HasQuoteState(QuoteStateOf(calls', c))
                 /\ last'.response = SuccessResponse(last'.finalizer_result)
                 /\ last'.cmds = <<Speak(c, <<"answer-tts">>)>>]_vars

\* C26: the call is answered and connected; 'I need a quote' with an
\* extraction that finds nothing leaves all three required fields missing
\* and asks for the name; a second transcript whose extraction supplies the
\* name, the e-mail address and one item makes the quote complete and is
\* answered with the recap and the request to confirm; 'yes' then invokes
\* the finalizer exactly once, and on success quote_state is cleared and the
\* success message is spoken.
C26_EndToEnd == []C26_FirstTurn /\ []C26_SecondTurn /\ C26_ThirdTurn

\* the step suspends a turn of call c at the e-mail of the finalizer
IsSuspension(c) == Len(inflight'[c]) = Len(inflight[c]) + 1

\* the step resumes a suspended turn of call c
IsResumption(c) == Len(inflight'[c]) + 1 = Len(inflight[c])

\* C23: clearing quote_state after a successful creation is all that keeps a
\* quote from being submitted twice, and it does not hold when turns
\* overlap.  A turn that waits in the finalizer for the e-mail has called
\* CreateQuote and has left the complete quote_state in the store; a
\* confirmation of the same call handled meanwhile, which finds that
\* quote_state and runs no extraction, invokes the finalizer again with the
\* same quote_state.
C23_DoubleSubmission ==
  [][\A c \in CallIds :
       /\ IsSuspension(c) =>
            /\ inflight'[c][Len(inflight'[c])].create_calls = 1
            /\ InStore(calls', c)
            /\ IsComplete(QuoteStateOf(calls', c))
            /\ QuoteStateOf(calls', c) = inflight'[c][Len(inflight'[c])].finalizer_arg
       /\ (/\ \E i \in DOMAIN inflight[c] :
                inflight[c][i].finalizer_arg = QuoteStateOf(calls, c)
           /\ IsTurnOf(c)
           /\ last'.is_confirmation /\ last'.extractor_runs = 0)
            => /\ last'.finalizer_calls = 1
               /\ last'.finalizer_arg = QuoteStateOf(calls, c)]_vars

\* CreateQuote was called twice for the same quote_state: by a turn that
\* still waits for its e-mail, and by the confirmation handled meanwhile
C23_Witness ==
  \E c \in CallIds : \E i \in DOMAIN inflight[c] :
    /\ last.call = c
    /\ last.ev \in {"TranscriptReady", "TurnSuspended"}
    /\ last.is_confirmation
    /\ last.create_calls = 1
    /\ inflight[c][i].create_calls = 1
    /\ inflight[c][i].finalizer_arg = last.finalizer_arg
    /\ last.ev = "TurnSuspended" => i < Len(inflight[c])

FieldAbsent(extracted, field) ==
  IF field = "quote_items"
  THEN ~\E i \in 1..Len(GetItems(extracted)) : IsValidItem(GetItems(extracted)[i])
  ELSE ~Truthy(extracted[field])

\* C31 -- The caller is never asked for a required field that is stored:
\* in every reachable state whose last response is the prompt for
\* customer_name, contact_info or quote_items, that field is absent or
\* invalid in the extracted data the call has stored, also when the
\* extractor failed in the turn.
C31_NeverAsksForStoredField ==
  (/\ last.ev = "TranscriptReady"
   /\ last.response.body = "ask"
   /\ last.response.field \in Range(RequiredFields))
    => FieldAbsent(StoredExtracted(calls, last.call), last.response.field)

\* C31 for the states the validation of lines 1416-1437 has produced: the
\* stored missing_fields are the fields absent in the stored extracted data
C31_AsksForAbsentFieldAfterValidation ==
  (/\ last.ev = "TranscriptReady"
   /\ last.response.body = "ask"
   /\ last.response.field \in Range(RequiredFields)
   /\ QuoteStateOf(calls, last.call).missing_fields
        = MissingFields(StoredExtracted(calls, last.call)))
    => FieldAbsent(StoredExtracted(calls, last.call), last.response.field)

\* the last event was a transcript with words
IsSpokenTurn == last.ev = "TranscriptReady" /\ ~IsEmptyTranscript(last.text)

\* C32 as stated: every handling of a non-empty TranscriptReady issues
\* exactly one Speak command, the answer or the error message, never both
\* and never none.
C32_ExactlyOneSpeak ==
  IsSpokenTurn =>
    /\ Len(last.cmds) = 1
    /\ last.cmds[1].cmd = "Speak"
    /\ last.cmds[1].tag[1] \in {"answer-tts", "error-tts"}

\* C32, amended: every handling of a non-empty TranscriptReady ends with an
\* answer text, whichever collaborator failed, and issues at most one
\* command: the Speak of the answer when the gateway client is available
\* and accepts it, and no command at all otherwise; it issues no error
\* message and no Listen.
C32_OneSpeakWhenPossible ==
  IsSpokenTurn =>
    /\ last.response # NoResponse
    /\ last.cmds = IF last.acs = "up" THEN <<Speak(last.call, <<"answer-tts">>)>>
                   ELSE <<>>

\* the Language Model was unavailable during the turn: the fallback text
\* was spoken, once, as the answer
C32_Witness ==
  /\ IsSpokenTurn
  /\ last.classifier_calls = 0
  /\ last.response = FallbackResponse
  /\ last.cmds = <<Speak(last.call, <<"answer-tts">>)>>

\* C33 -- The answers of the assistant are recorded: in every reachable
\* state whose last event is a turn that spoke an answer, the
\* conversation_history of the call holds an entry with role assistant.
C33_AnswersRecorded ==
  (/\ last.ev = "TranscriptReady"
   /\ last.cmds = <<Speak(last.call, <<"answer-tts">>)>>
   /\ InStore(calls, last.call))
    => \E i \in DOMAIN HistoryOf(calls, last.call) :
         HistoryOf(calls, last.call)[i].role = "assistant"

\* what the code keeps instead: every entry of every conversation_history
\* has role user
C33_HistoryOfUserMessages ==
  \A c \in CallIds : \A i \in DOMAIN HistoryOf(calls, c) :
    HistoryOf(calls, c)[i].role = "user"

\* C34 -- In every reachable state every item of a stored
\* quote_state.extracted.quote_items has a non-empty product name and a
\* quantity greater than 0, with or without the product catalog.
C34_StoredItemsValid ==
  \A c \in CallIds :
    \A i \in DOMAIN GetItems(StoredExtracted(calls, c)) :
      IsValidItem(GetItems(StoredExtracted(calls, c))[i])

\* the part of C34 the merge of lines 1354-1372 and the matching of lines
\* 1381-1400 do keep: every stored item is a dict with a non-empty name
C34_StoredItemsNamed ==
  \A c \in CallIds :
    \A i \in DOMAIN GetItems(StoredExtracted(calls, c)) :
      /\ IsDict(GetItems(StoredExtracted(calls, c))[i])
      /\ Truthy(GetItems(StoredExtracted(calls, c))[i].product_package)

\* the number of the caller of call c, <<>> for a call without a record
NumberOf(store, c) == IF InStore(store, c) THEN CallerNumber(store, c) ELSE <<>>

\* the last event called start_speech_recognition
TriedToListen ==
  \/ last.ev = "PlaybackFinished" /\ last.acs # "none"
  \/ last.ev = "TranscriptReady" /\ IsEmptyTranscript(last.text)

\* every Listen of the last event is addressed to the caller's number
ListenAddressed ==
  \A i \in DOMAIN last.cmds :
    last.cmds[i].cmd = "Listen"
      => /\ NumberOf(calls, last.call) # <<>>
         /\ last.cmds[i] = Listen(last.call, NumberOf(calls, last.call))

\* the playback of an error message does not start listening
ErrorPlaybackEnds ==
  (last.ev = "PlaybackFinished" /\ last.text[1] = "error-tts") => last.cmds = <<>>

====
